---- MODULE Spec2Model ----
(***************************************************************************)
(* Model of the traffic aggregation engine of network-monitor              *)
(* (internal/analysis.Aggregator) together with its caller                 *)
(* (internal/monitor.Monitor): the ingestion goroutine processPackets, the *)
(* ticker goroutine run, the monitor's consuming loop and the external     *)
(* caller of Stop / Close (specification Spec, with fairness FairSpec).    *)
(* There main has loaded the default configuration, the packet source      *)
(* delivers any frames or the four frames of one example window, and the   *)
(* consuming loop runs processIntervalData on every window it receives.    *)
(* The functions that need no concurrency (the extraction of               *)
(* aggregatePacket, the copy of processInterval at the level of pointers,  *)
(* CalculateSpeedMbps) are also called one after another in UnitSpec.      *)
(* MonitorSpec is the configuration (LoadConfig) and the monitor's work    *)
(* on each window it receives: metrics, threshold alert, top talkers and   *)
(* notification, every call of a collector a step of its own.  Go's int    *)
(* and time.Duration are 64-bit integers that wrap and float64 values are  *)
(* rounded to the nearest even after every operation; the strings of the   *)
(* flags, the environment and the configuration file are read as strconv   *)
(* reads them and decoded by the kind of the value, as mapstructure does.  *)
(***************************************************************************)
EXTENDS Integers, Sequences, FiniteSets, TLC

----
(* Bounds of the model *)

\* the number of inputs the environment delivers: packets of the feed and
\* periods of the ticker (the periods alone beside a source that delivers
\* the frames of ExampleFeed)
MaxInputs == 2

\* the number of calls of aggregatePacket and processInterval the sequential
\* view makes
MaxCalls == 3

\* the number of windows Monitor.Run receives and processes
MaxWindows == 2

----
(* Packets: what aggregatePacket reads of a gopacket.Packet *)

NilIP == "<nil>"

NoLayer == [present |-> FALSE, src |-> NilIP, payload |-> 0, contents |-> 0]

Layer(src, payload, contents) ==
    [present |-> TRUE, src |-> src, payload |-> payload, contents |-> contents]

NoMeta == [present |-> FALSE, length |-> 0]

Meta(n) == [present |-> TRUE, length |-> n]

Pkt4(src, payload, contents, metaLen) ==
    [ip4 |-> Layer(src, payload, contents), ip6 |-> NoLayer, meta |-> Meta(metaLen)]

Pkt6(src, payload, contents, metaLen) ==
    [ip4 |-> NoLayer, ip6 |-> Layer(src, payload, contents), meta |-> Meta(metaLen)]

PktOther(metaLen) ==
    [ip4 |-> NoLayer, ip6 |-> NoLayer, meta |-> Meta(metaLen)]

\* a frame that carries an IPv4 layer and an IPv6 layer (IPv6 tunnelled in
\* IPv4)
PktBoth(src4, payload4, contents4, src6, payload6, contents6, metaLen) ==
    [ip4 |-> Layer(src4, payload4, contents4),
     ip6 |-> Layer(src6, payload6, contents6), meta |-> Meta(metaLen)]

\* the frames the packet source of the model delivers
FeedPackets ==
    { Pkt4("10.0.0.1", 280, 20, 314),
      Pkt6("fe80::1", 0, 40, 1200),
      PktOther(60) }

\* the frames of the example window of the specification, in the order the
\* source delivers them: 300, 200 and 500 bytes from 10.0.0.1 and 100 bytes
\* from 10.0.0.2
ExampleFeed ==
    << Pkt4("10.0.0.1", 280, 20, 314),
       Pkt4("10.0.0.1", 180, 20, 214),
       Pkt4("10.0.0.1", 480, 20, 514),
       Pkt4("10.0.0.2", 80, 20, 114) >>

\* the frames the sequential view calls aggregatePacket with: IPv4, IPv6
\* with a payload of 0 and a captured length of 1200, IPv6 whose metadata
\* reports a length of 0, both layers, and a frame without an IP layer
UnitPackets ==
    { Pkt4("10.0.0.1", 280, 20, 314),
      Pkt6("fe80::1", 0, 40, 1200),
      Pkt6("fe80::1", 8, 40, 0),
      PktBoth("10.0.0.1", 60, 20, "fe80::1", 20, 40, 94),
      PktOther(60) }

----
(* Pure parts of aggregatePacket and processInterval *)

\* an extraction that looks for the IPv6 layer first
SrcIPv6First(p) ==
    IF p.ip6.present THEN p.ip6.src
    ELSE IF p.ip4.present THEN p.ip4.src
    ELSE NilIP

\* srcIP as aggregatePacket extracts it: IPv4 first, else IPv6, else nil
SrcIP(p) ==
    IF p.ip4.present THEN p.ip4.src
    ELSE IF p.ip6.present THEN p.ip6.src
    ELSE NilIP

\* a size that is the payload length of the IP header for IPv6
PacketSizePayloadLength(p) ==
    IF p.ip4.present THEN p.ip4.payload + p.ip4.contents
    ELSE IF p.ip6.present THEN p.ip6.payload
    ELSE 0

\* packetSize as aggregatePacket extracts it
PacketSize(p) ==
    IF p.ip4.present THEN p.ip4.payload + p.ip4.contents
    ELSE IF p.ip6.present
         THEN IF p.meta.present THEN p.meta.length
              ELSE p.ip6.payload + p.ip6.contents
    ELSE 0

\* an early return that tests the address alone
DiscardedNilOnly(p) == SrcIP(p) = NilIP

\* the early return of aggregatePacket
Discarded(p) == SrcIP(p) = NilIP \/ PacketSize(p) = 0

EmptyMap == [ip \in {} |-> 0]

\* the locked read-modify-write of aggregatePacket
AddBytesOverwrite(m, ip, n) ==
    [x \in DOMAIN m \cup {ip} |-> IF x = ip THEN n ELSE m[x]]

AddBytes(m, ip, n) ==
    [x \in DOMAIN m \cup {ip} |->
        IF x = ip THEN (IF ip \in DOMAIN m THEN m[ip] ELSE 0) + n ELSE m[x]]

\* the deep copy of processInterval
CopyDataEmpty(m) == EmptyMap

CopyData(m) == [ip \in DOMAIN m |-> m[ip]]

RECURSIVE SumOver(_, _)
SumOver(m, S) ==
    IF S = {} THEN 0
    ELSE LET x == CHOOSE y \in S : TRUE
         IN m[x] + SumOver(m, S \ {x})

\* totalBytes of processInterval
TotalBytes(m) == SumOver(m, DOMAIN m)

\* a reset that zeroes the counters and keeps the entries
ResetDataZero(m) == [ip \in DOMAIN m |-> 0]

\* a reset that keeps the live map as it is
ResetDataKeep(m) == m

\* the live map after the reset of processInterval
ResetData(m) == EmptyMap

----
(***************************************************************************)
(* The numbers of the program.  A Go int, int64 or time.Duration has 64    *)
(* bits and a float64 a significand of 53 bits, beyond the integers of     *)
(* TLC.  A natural number is held as the sequence of its digits in base    *)
(* 2^15, the lowest first and the highest not zero (zero is << >>).        *)
(***************************************************************************)

Max(S) == CHOOSE x \in S : \A y \in S : y <= x

Min(S) == CHOOSE x \in S : \A y \in S : x <= y

\* the digit i of a, zero beyond its length
Digit(a, i) == IF i >= 1 /\ i <= Len(a) THEN a[i] ELSE 0

\* a digit sequence without its leading zeros
Trim(a) == SubSeq(a, 1, Max({0} \cup {i \in 1 .. Len(a) : a[i] # 0}))

\* a natural number of TLC
Natural(n) == Trim(<< n % 32768, (n \div 32768) % 32768, n \div 1073741824 >>)

\* -1, 0 or 1 as a < b, a = b or a > b
NatCmp(a, b) ==
    IF Len(a) # Len(b) THEN (IF Len(a) < Len(b) THEN 0 - 1 ELSE 1)
    ELSE LET differ == {i \in 1 .. Len(a) : a[i] # b[i]}
         IN  IF differ = {} THEN 0
             ELSE IF a[Max(differ)] < b[Max(differ)] THEN 0 - 1 ELSE 1

\* a + b: a carry enters the digit i when a lower digit sum passes the
\* base and every digit sum between the two is the base less one
NatAdd(a, b) ==
    LET n == 1 + Max({Len(a), Len(b)})
        sum == << >> \o [i \in 1 .. n |-> Digit(a, i) + Digit(b, i)]
        carry(i) == \E j \in 1 .. i - 1 :
                        /\ sum[j] >= 32768
                        /\ \A k \in j + 1 .. i - 1 : sum[k] = 32767
    IN  Trim([i \in 1 .. n |-> (sum[i] + (IF carry(i) THEN 1 ELSE 0)) % 32768])

\* a - b for a >= b: the digit i lends when a lower digit of a is below
\* that of b and the digits between the two are equal
NatSub(a, b) ==
    LET borrow(i) == \E j \in 1 .. i - 1 :
                         /\ a[j] < Digit(b, j)
                         /\ \A k \in j + 1 .. i - 1 : a[k] = Digit(b, k)
    IN  Trim([i \in 1 .. Len(a) |->
                 (a[i] - Digit(b, i) - (IF borrow(i) THEN 1 ELSE 0) + 32768) % 32768])

\* a * m for a digit m
NatMulDigit(a, m) ==
    NatAdd([i \in 1 .. Len(a) |-> (a[i] * m) % 32768],
           << 0 >> \o [i \in 1 .. Len(a) |-> (a[i] * m) \div 32768])

\* a * 2^k
Shl(a, k) ==
    LET w == k \div 15
        s == k % 15
    IN  Trim([i \in 1 .. Len(a) + w + 1 |->
                 (Digit(a, i - w) % 2 ^ (15 - s)) * 2 ^ s
                 + Digit(a, i - w - 1) \div 2 ^ (15 - s)])

\* a \div 2^k
Shr(a, k) ==
    LET w == k \div 15
        s == k % 15
    IN  Trim([i \in 1 .. Len(a) - w |->
                 a[i + w] \div 2 ^ s + (Digit(a, i + w + 1) % 2 ^ s) * 2 ^ (15 - s)])

\* a % 2^k
LowBits(a, k) ==
    Trim([i \in 1 .. k \div 15 + 1 |->
             IF i <= k \div 15 THEN Digit(a, i) ELSE Digit(a, i) % 2 ^ (k % 15)])

\* a * b, by halves of b
RECURSIVE NatMul(_, _)
NatMul(a, b) ==
    IF a = << >> \/ b = << >> THEN << >>
    ELSE IF Len(b) = 1 THEN NatMulDigit(a, b[1])
    ELSE LET h == Len(b) \div 2
         IN  NatAdd(NatMul(a, Trim(SubSeq(b, 1, h))),
                    Shl(NatMul(a, SubSeq(b, h + 1, Len(b))), 15 * h))

\* the number of bits of a digit and of a natural number
BitLenDigit(d) == CHOOSE k \in 0 .. 15 : d < 2 ^ k /\ (k = 0 \/ d >= 2 ^ (k - 1))

BitLen(a) == IF a = << >> THEN 0 ELSE 15 * (Len(a) - 1) + BitLenDigit(a[Len(a)])

IsOdd(a) == a # << >> /\ a[1] % 2 = 1

\* the number of zero bits at the low end of a # 0
TrailingZeros(a) ==
    LET i == Min({j \in 1 .. Len(a) : a[j] # 0})
    IN  15 * (i - 1) + Max({k \in 0 .. 14 : a[i] % 2 ^ k = 0})

\* the digit of the quotient of r by b, which is the estimate qhat or
\* at most two below
QuotientDigit(r, b, qhat) ==
    IF qhat > 0 /\ NatCmp(NatMulDigit(b, qhat), r) > 0
    THEN IF qhat > 1 /\ NatCmp(NatMulDigit(b, qhat - 1), r) > 0
         THEN qhat - 2
         ELSE qhat - 1
    ELSE qhat

\* the digit d taken from x
NatDivTake(x, b, d, q) ==
    [q |-> << d >> \o q,
     r |-> IF d = 0 THEN x ELSE NatSub(x, NatMulDigit(b, d))]

\* one step: x is the remainder so far with the next digit of a below it
NatDivStep(x, b, q) ==
    NatDivTake(x, b,
               QuotientDigit(x, b,
                   Min({32767, (Digit(x, Len(b) + 1) * 32768 + Digit(x, Len(b)))
                                  \div b[Len(b)]})),
               q)

\* the step below the steps of the higher digits
NatDivBelow(higher, b, digit) ==
    NatDivStep(Trim(<< digit >> \o higher.r), b, higher.q)

\* long division of a by b (its highest digit at least 2^14), from the
\* digit i of a down: the digits of the quotient and the remainder
RECURSIVE NatDivFrom(_, _, _)
NatDivFrom(a, b, i) ==
    IF i > Len(a) - Len(b) + 1 THEN [q |-> << >>, r |-> Trim(SubSeq(a, i, Len(a)))]
    ELSE NatDivBelow(NatDivFrom(a, b, i + 1), b, a[i])

\* the division d of the numbers shifted by s bits, shifted back
NatDivShifted(d, s) == [q |-> Trim(d.q), r |-> Shr(d.r, s)]

\* quotient and remainder of a by b, b not zero
NatDivMod(a, b) ==
    IF NatCmp(a, b) < 0 THEN [q |-> << >>, r |-> a]
    ELSE LET s == 15 - BitLenDigit(b[Len(b)])
         IN  NatDivShifted(NatDivFrom(Shl(a, s), Shl(b, s), 1), s)

\* base^e for a digit base, by halves of e
RECURSIVE NatPower(_, _)
NatPower(base, e) ==
    IF e = 0 THEN << 1 >>
    ELSE IF e = 1 THEN << base >>
    ELSE NatMul(NatPower(base, e - e \div 2), NatPower(base, e \div 2))

(* A Go int, int64 or time.Duration: its sign and its magnitude, at most   *)
(* 2^63, and 2^63 only when negative                                       *)

Int64(n) == [neg |-> n < 0, mag |-> Natural(IF n < 0 THEN 0 - n ELSE n)]

\* the 64 bits of -low
Negated64(low) ==
    IF low = << >> THEN << >> ELSE NatSub(Shl(<< 1 >>, 64), low)

\* the int64 with the 64 bits u: negative when the highest is set
Signed64(u) ==
    IF BitLen(u) = 64 THEN [neg |-> TRUE, mag |-> NatSub(Shl(<< 1 >>, 64), u)]
    ELSE [neg |-> FALSE, mag |-> u]

\* the integer (-1)^neg * mag reduced to 64 bits in two's complement, as
\* the arithmetic of Go does without notice
Wrap64(neg, mag) ==
    IF neg THEN Signed64(Negated64(LowBits(mag, 64)))
    ELSE Signed64(LowBits(mag, 64))

Int64Mul(a, b) == Wrap64(a.neg # b.neg, NatMul(a.mag, b.mag))

\* a / b and a % b of Go for b # 0: the quotient is truncated towards zero
\* and the remainder has the sign of a
Int64Quo(a, b) == Wrap64(a.neg # b.neg, NatDivMod(a.mag, b.mag).q)

\* the remainder r with the sign of the dividend
SignedAs(neg, r) == [neg |-> neg /\ r # << >>, mag |-> r]

Int64Rem(a, b) == SignedAs(a.neg, NatDivMod(a.mag, b.mag).r)

Int64LE0(a) == a.neg \/ a.mag = << >>

\* a < b
Int64Less(a, b) ==
    IF a.neg # b.neg THEN a.neg
    ELSE IF a.neg THEN NatCmp(a.mag, b.mag) > 0
    ELSE NatCmp(a.mag, b.mag) < 0

(* A float64: NaN, an infinity, or (-1)^neg * mant * 2^exp with mant odd   *)
(* and below 2^53 and exp from -1074 up; the zeros have mant << >> and     *)
(* exp 0.                                                                  *)

NaN == [nan |-> TRUE, inf |-> FALSE, neg |-> FALSE, mant |-> << >>, exp |-> 0]

Inf(neg) ==
    [nan |-> FALSE, inf |-> TRUE, neg |-> neg, mant |-> << >>, exp |-> 0]

Zero(neg) ==
    [nan |-> FALSE, inf |-> FALSE, neg |-> neg, mant |-> << >>, exp |-> 0]

\* (-1)^neg * m * 2^e for m below 2^53 and a representable product
Finite(neg, m, e) ==
    IF m = << >> THEN Zero(neg)
    ELSE LET z == TrailingZeros(m)
         IN  [nan |-> FALSE, inf |-> FALSE, neg |-> neg,
              mant |-> Shr(m, z), exp |-> e + z]

\* the float64 of m * 2^exp for m of 53 bits at most
Packed(neg, m, exp) ==
    IF BitLen(m) + exp > 1024 THEN Inf(neg) ELSE Finite(neg, m, exp)

\* hi or hi + 1 as the bits cut off are below (c < 0), at (c = 0) or above
\* (c > 0) the half
Nearest(hi, c, sticky) ==
    IF c > 0 \/ (c = 0 /\ (sticky \/ IsOdd(hi))) THEN NatAdd(hi, << 1 >>)
    ELSE hi

\* q without its t low bits
RoundCut(neg, q, sticky, e, t) ==
    IF t <= 0 THEN Packed(neg, q, e)
    ELSE Packed(neg,
                Nearest(Shr(q, t),
                        NatCmp(LowBits(q, t), Shl(<< 1 >>, t - 1)), sticky),
                e + t)

\* The float64 nearest to (-1)^neg * q * 2^e, or to a value between that
\* and (-1)^neg * (q + 1) * 2^e when sticky (q then has 55 bits or more):
\* q is cut to 53 bits, or to fewer where the exponent would pass below
\* -1074, a half goes to the even neighbour, and a result of 2^1024 or more
\* is an infinity.
RoundToEven(neg, q, sticky, e) ==
    RoundCut(neg, q, sticky, e,
             IF BitLen(q) - 53 > (0 - 1074) - e THEN BitLen(q) - 53
             ELSE (0 - 1074) - e)

\* the quotient d.q rounded, sticky when a remainder is left
RoundDivided(neg, d, more, e) ==
    RoundToEven(neg, d.q, more \/ d.r # << >>, e)

\* the float64 nearest to (-1)^neg * (a / b) * 2^e for a # 0 and b # 0, or
\* to a value just above a / b when more is set
RoundQuotient(neg, a, b, more, e) ==
    LET k == IF 55 + BitLen(b) > BitLen(a) THEN 55 + BitLen(b) - BitLen(a)
             ELSE 0
    IN  RoundDivided(neg, NatDivMod(Shl(a, k), b), more, e - k)

\* float64(n) for an int64 n
Float64(n) == RoundToEven(n.neg, n.mag, FALSE, 0)

\* x * y
Float64Mul(x, y) ==
    IF x.nan \/ y.nan THEN NaN
    ELSE IF x.inf \/ y.inf
    THEN IF (~x.inf /\ x.mant = << >>) \/ (~y.inf /\ y.mant = << >>) THEN NaN
         ELSE Inf(x.neg # y.neg)
    ELSE RoundToEven(x.neg # y.neg, NatMul(x.mant, y.mant), FALSE,
                     x.exp + y.exp)

\* x / y
Float64Quo(x, y) ==
    IF x.nan \/ y.nan THEN NaN
    ELSE IF x.inf THEN (IF y.inf THEN NaN ELSE Inf(x.neg # y.neg))
    ELSE IF y.inf THEN Zero(x.neg # y.neg)
    ELSE IF y.mant = << >>
    THEN (IF x.mant = << >> THEN NaN ELSE Inf(x.neg # y.neg))
    ELSE IF x.mant = << >> THEN Zero(x.neg # y.neg)
    ELSE RoundQuotient(x.neg # y.neg, x.mant, y.mant, FALSE,
                       x.exp - y.exp)

\* a * 2^e with the sign xneg plus b * 2^e with the sign yneg, a and b not
\* zero
AddAligned(xneg, a, yneg, b, e) ==
    IF xneg = yneg THEN RoundToEven(xneg, NatAdd(a, b), FALSE, e)
    ELSE IF NatCmp(a, b) = 0 THEN Zero(FALSE)
    ELSE IF NatCmp(a, b) > 0 THEN RoundToEven(xneg, NatSub(a, b), FALSE, e)
    ELSE RoundToEven(yneg, NatSub(b, a), FALSE, e)

\* x + y
Float64Add(x, y) ==
    IF x.nan \/ y.nan THEN NaN
    ELSE IF x.inf THEN (IF y.inf /\ x.neg # y.neg THEN NaN ELSE x)
    ELSE IF y.inf THEN y
    ELSE IF x.mant = << >>
    THEN (IF y.mant = << >> THEN Zero(x.neg /\ y.neg) ELSE y)
    ELSE IF y.mant = << >> THEN x
    ELSE LET e == IF x.exp < y.exp THEN x.exp ELSE y.exp
         IN  AddAligned(x.neg, Shl(x.mant, x.exp - e),
                        y.neg, Shl(y.mant, y.exp - e), e)

\* x > y for two float64 that are not NaN
Float64Above(x, y) ==
    LET xz == ~x.inf /\ x.mant = << >>
        yz == ~y.inf /\ y.mant = << >>
        xtop == BitLen(x.mant) + x.exp
        ytop == BitLen(y.mant) + y.exp
        e == IF x.exp < y.exp THEN x.exp ELSE y.exp
        \* |x| > |y| and |x| < |y| for finite x, y that are not zero
        larger == xtop > ytop
                    \/ (xtop = ytop
                          /\ NatCmp(Shl(x.mant, x.exp - e),
                                    Shl(y.mant, y.exp - e)) > 0)
        smaller == xtop < ytop
                     \/ (xtop = ytop
                           /\ NatCmp(Shl(x.mant, x.exp - e),
                                     Shl(y.mant, y.exp - e)) < 0)
    IN  IF xz THEN ~yz /\ y.neg
        ELSE IF yz THEN ~x.neg
        ELSE IF x.neg # y.neg THEN y.neg
        ELSE IF x.inf \/ y.inf
        THEN (IF x.neg THEN y.inf /\ ~x.inf ELSE x.inf /\ ~y.inf)
        ELSE IF x.neg THEN smaller ELSE larger

\* x > y of Go: false when either is NaN
Greater(x, y) == ~x.nan /\ ~y.nan /\ Float64Above(x, y)

\* x <= y of Go: false when either is NaN
LessOrEqual(x, y) == ~x.nan /\ ~y.nan /\ ~Float64Above(x, y)

----
(* The rate of a window *)

\* time.Second, a Duration in nanoseconds
Second == Int64(1000000000)

\* d.Seconds() of a Duration d: the whole seconds plus the nanoseconds
\* left over / 1e9
Seconds(d) ==
    Float64Add(Float64(Int64Quo(d, Second)),
               Float64Quo(Float64(Int64Rem(d, Second)), Float64(Second)))

\* the constants 8 and 1_000_000 of the rate, as float64
BitsPerByte == Float64(Int64(8))
BitsPerMegabit == Float64(Int64(1000000))

\* (float64(bytes) * 8) / (intervalSeconds * 1_000_000)
Mbps(bytes, intervalSeconds) ==
    Float64Quo(Float64Mul(Float64(bytes), BitsPerByte),
               Float64Mul(intervalSeconds, BitsPerMegabit))

\* the return of CalculateSpeedMbps for its local intervalSeconds
MbpsOrZero(bytes, intervalSeconds) ==
    IF LessOrEqual(intervalSeconds, Zero(FALSE)) THEN Zero(FALSE)
    ELSE Mbps(bytes, intervalSeconds)

\* the rate without the check of the interval
CalculateSpeedMbpsUnchecked(bytes, interval) == Mbps(bytes, Seconds(interval))

\* CalculateSpeedMbps(bytes, interval): intervalSeconds :=
\* interval.Seconds(); 0.0 for intervalSeconds <= 0, else the rate
CalculateSpeedMbps(bytes, interval) == MbpsOrZero(bytes, Seconds(interval))

\* the arguments the sequential view calls CalculateSpeedMbps with: byte
\* counts up to 2^53 + 1, which float64 does not hold, and intervals of
\* -1 s, 0, 1 ms, 1 s, 1.5 s and 601 s
SpeedBytes ==
    {Int64(0), Int64(1), Int64(1000000), Int64(82467267),
     [neg |-> FALSE, mag |-> NatAdd(Shl(<< 1 >>, 53), << 1 >>)]}
SpeedIntervals ==
    {Int64(0 - 1000000000), Int64(0), Int64(1000000), Int64(1000000000),
     Int64(1500000000), Int64Mul(Int64(601), Second)}

\* CalculateSpeedMbps on those arguments, computed once
SpeedMbps ==
    [bytes \in SpeedBytes, interval \in SpeedIntervals |->
        CalculateSpeedMbps(bytes, interval)]

----
(* State *)

VARIABLES
    intervalData,     \* Aggregator.intervalData: the live map IP -> bytes
    mu,               \* Aggregator.mu: "free", or the goroutine holding it
    stopClosed,       \* Aggregator.stopChan has been closed
    tickC,            \* number of ticks buffered in ticker.C (capacity 1)
    tickerStopped,    \* ticker.Stop() has been called
    resultsClosed,    \* Aggregator.resultsChan has been closed
    source,           \* the packet source: one that delivers any frames
                      \* of FeedPackets, or a scripted one and the frames
                      \* it has yet to deliver, in order
    fed,              \* number of packets taken from the packet source
    feedClosed,       \* packetSource.Packets() has been closed
    ingestPc,         \* position of the goroutine processPackets
    cur,              \* the accepted packet aggregatePacket is adding; late
                      \* (history): stopChan was closed when it was taken
    runPc,            \* position of the goroutine run
    cycle,            \* the window cycle run is performing
    intervalSnapshot, \* the snapshot processInterval is sending
    mStopClosed,      \* Monitor.stopChan has been closed
    consPc,           \* position of Monitor.Run
    consData,         \* the intervalData Monitor.Run has just received
    received,         \* the results Monitor.Run has processed, in order
    callerPc,         \* position of the external caller of Stop / Close
    panicked,         \* "none", or the function whose close() panicked
    fires,            \* history: number of ticker periods elapsed
    swapsBegun,       \* history: number of window cycles begun
    snaps,            \* history: the snapshot of every swap, in order
    adds,             \* history: every completed Add, in order
    discards,         \* history: ids of the results processInterval dropped
    closes,           \* history: number of close(resultsChan) executed
    calls,            \* sequential view: number of calls made so far
    call,             \* sequential view: the latest call and what it returned
    cells,            \* pointer view: the TrafficData objects allocated, by
                      \* address (index), each holding its Bytes
    liveMap,          \* pointer view: a.intervalData, IP -> address
    sentMaps,         \* pointer view: the snapshots produced, IP -> address
    sentVals,         \* history: the entries of every snapshot when produced
    cfg,              \* sequential view: the call of LoadConfig, its sources
                      \* and what it returned
    gauges,           \* the Prometheus collectors of internal/metrics
    deliveries,       \* the goroutines notifyThresholdExceeded has started,
                      \* in order, each with the window it reports
    processed,        \* history: number and total bytes of the windows
                      \* processIntervalData has returned from
    monPc             \* position of Monitor.Run in processIntervalData

consVars == << consPc, consData, received >>

\* the aggregator, its environment and the owner of the monitor
engineVars ==
    << intervalData, mu, stopClosed, tickC, tickerStopped, resultsClosed,
       source, fed, feedClosed, ingestPc, cur, runPc, cycle, intervalSnapshot,
       mStopClosed, callerPc, panicked, fires, swapsBegun, snaps, adds,
       discards, closes >>

progVars == << engineVars, consVars >>

monVars == << gauges, deliveries, processed, monPc >>

unitVars ==
    << calls, call, cells, liveMap, sentMaps, sentVals, cfg, monVars >>

vars == << progVars, unitVars >>

aggVars == << intervalData, mu >>
ingestVars == << source, fed, ingestPc, cur >>
runVars == << runPc, cycle, intervalSnapshot, resultsClosed, tickC >>
callerVars == << callerPc, mStopClosed, tickerStopped >>
histVars == << swapsBegun, snaps, adds, discards, closes >>

NoCur == [src |-> NilIP, size |-> 0, late |-> FALSE]
NoCycle == [final |-> FALSE, stopped |-> FALSE, nb |-> 0]
NoMsg == [id |-> 0, data |-> EmptyMap]
NoPacket == [ip4 |-> NoLayer, ip6 |-> NoLayer, meta |-> NoMeta]
NoSpeed == Zero(FALSE)

\* the collectors as promauto registers them: a counter and a gauge start
\* at 0, a gauge vector has no series
NoGauges ==
    [speed |-> NoSpeed, traffic |-> << >>, topTalkers |-> EmptyMap,
     thresholdExceeded |-> 0]
NoCall == [fn |-> "none"]
NoCfg == [status |-> "none"]

\* a packet source that delivers any frames of FeedPackets
AnySource == [scripted |-> FALSE, frames |-> << >>]

\* a packet source that delivers the frames given, in order
Scripted(frames) == [scripted |-> TRUE, frames |-> frames]

\* NewAggregator and NewMonitor: empty live map, open channels, both
\* goroutines of the aggregator started; Monitor.Run has yet to be started.
\* c is what main holds of LoadConfig, src the packet source it opened.
StartedWith(c, src) ==
    /\ intervalData = EmptyMap
    /\ mu = "free"
    /\ stopClosed = FALSE
    /\ tickC = 0
    /\ tickerStopped = FALSE
    /\ resultsClosed = FALSE
    /\ source = src
    /\ fed = 0
    /\ feedClosed = FALSE
    /\ ingestPc = "select"
    /\ cur = NoCur
    /\ runPc = "select"
    /\ cycle = NoCycle
    /\ intervalSnapshot = NoMsg
    /\ mStopClosed = FALSE
    /\ consPc = "start"
    /\ consData = NoMsg
    /\ received = << >>
    /\ callerPc = "idle"
    /\ panicked = "none"
    /\ fires = 0
    /\ swapsBegun = 0
    /\ snaps = << >>
    /\ adds = << >>
    /\ discards = << >>
    /\ closes = 0
    /\ calls = 0
    /\ call = NoCall
    /\ cells = << >>
    /\ liveMap = EmptyMap
    /\ sentMaps = << >>
    /\ sentVals = << >>
    /\ cfg = c
    /\ gauges = NoGauges
    /\ deliveries = << >>
    /\ processed = [n |-> 0, bytes |-> 0]
    /\ monPc = "idle"

\* the sequential views start before main has called LoadConfig
Init == StartedWith(NoCfg, AnySource)

\* a goroutine takes a step only while the process has not crashed
Alive == panicked = "none"

----
(* The environment: the ticker's clock and the packet source *)

\* the inputs left: MaxInputs frames and periods in all with a source that
\* delivers any frames, MaxInputs periods beside a scripted source
PeriodsLeft ==
    IF source.scripted THEN fires < MaxInputs ELSE fires + fed < MaxInputs

\* the frames the source can deliver next
Offered ==
    IF source.scripted
    THEN (IF source.frames = << >> THEN {} ELSE {Head(source.frames)})
    ELSE (IF fires + fed < MaxInputs THEN FeedPackets ELSE {})

\* the source after it has delivered a frame
Delivered ==
    IF source.scripted THEN Scripted(Tail(source.frames)) ELSE source

\* a ticker period elapses: the tick is buffered in ticker.C, or dropped
\* when the buffer already holds one
TimerFire ==
    /\ Alive
    /\ ~tickerStopped
    /\ PeriodsLeft
    /\ fires' = fires + 1
    /\ tickC' = 1
    /\ UNCHANGED << unitVars, aggVars, ingestVars, consVars, callerVars, histVars,
                    stopClosed, feedClosed, runPc, cycle, intervalSnapshot,
                    resultsClosed, panicked >>

\* the collaborator closes the feed: no packet is delivered after it
FeedClose ==
    /\ Alive
    /\ ~source.scripted
    /\ ~feedClosed
    /\ feedClosed' = TRUE
    /\ UNCHANGED << unitVars, aggVars, ingestVars, runVars, consVars, callerVars,
                    histVars, stopClosed, panicked, fires >>

----
(* Aggregator.mu *)

\* a Lock() that does not wait for the holder to unlock
MuLockNoWait(g) == mu' = g

\* a.mu.Lock() by goroutine g: waits until the mutex is free, then holds it
MuLock(g) ==
    /\ mu = "free"
    /\ mu' = g

----
(* processPackets and aggregatePacket *)

\* case <-a.stopChan: return
IngestStop ==
    /\ Alive
    /\ ingestPc = "select"
    /\ stopClosed
    /\ ingestPc' = "stopped"
    /\ UNCHANGED << unitVars, aggVars, runVars, consVars, callerVars, histVars,
                    stopClosed, source, fed, feedClosed, cur, panicked, fires >>

\* case packet, ok := <-Packets() with ok: aggregatePacket extracts the
\* address and the size and returns early for a frame it does not count
IngestRecv ==
    /\ Alive
    /\ ingestPc = "select"
    /\ ~feedClosed
    /\ Offered # {}
    /\ fed' = fed + 1
    /\ source' = Delivered
    /\ \E p \in Offered :
         IF Discarded(p)
         THEN /\ ingestPc' = "select"
              /\ cur' = NoCur
         ELSE /\ ingestPc' = "lock"
              /\ cur' = [src |-> SrcIP(p), size |-> PacketSize(p),
                         late |-> stopClosed]
    /\ UNCHANGED << unitVars, aggVars, runVars, consVars, callerVars, histVars,
                    stopClosed, feedClosed, panicked, fires >>

\* case packet, ok := <-Packets() with !ok: close(a.stopChan); return
IngestExhausted ==
    /\ Alive
    /\ ingestPc = "select"
    /\ feedClosed
    /\ ingestPc' = "exhausted"
    /\ IF stopClosed
       THEN panicked' = "processPackets" /\ UNCHANGED stopClosed
       ELSE stopClosed' = TRUE /\ UNCHANGED panicked
    /\ UNCHANGED << unitVars, aggVars, runVars, consVars, callerVars, histVars,
                    source, fed, feedClosed, cur, fires >>

\* a.mu.Lock() of aggregatePacket
IngestLock ==
    /\ Alive
    /\ ingestPc = "lock"
    /\ MuLock("ingest")
    /\ ingestPc' = "locked"
    /\ UNCHANGED << unitVars, intervalData, runVars, consVars, callerVars, histVars,
                    stopClosed, source, fed, feedClosed, cur, panicked, fires >>

\* data.Bytes += int64(packetSize), then the deferred a.mu.Unlock()
IngestAdd ==
    /\ Alive
    /\ ingestPc = "locked"
    /\ intervalData' = AddBytes(intervalData, cur.src, cur.size)
    /\ mu' = "free"
    /\ ingestPc' = "select"
    /\ cur' = NoCur
    /\ adds' = Append(adds, [src |-> cur.src, size |-> cur.size,
                             w |-> Len(snaps) + 1])
    /\ UNCHANGED << unitVars, runVars, consVars, callerVars, stopClosed, source, fed,
                    feedClosed, panicked, fires, swapsBegun, snaps,
                    discards, closes >>

----
(* run and processInterval *)

\* where run continues after processInterval: the stop case returns
AfterCycleLoop(c) == "select"

AfterCycle(c) == IF c.final THEN "return" ELSE "select"

\* case <-a.ticker.C: a.processInterval()
RunTick ==
    /\ Alive
    /\ runPc = "select"
    /\ tickC = 1
    /\ tickC' = 0
    /\ cycle' = [final |-> FALSE, stopped |-> stopClosed, nb |-> Len(adds)]
    /\ runPc' = "lock"
    /\ swapsBegun' = swapsBegun + 1
    /\ UNCHANGED << unitVars, aggVars, ingestVars, consVars, callerVars, stopClosed,
                    feedClosed, intervalSnapshot, resultsClosed, panicked,
                    fires, snaps, adds, discards, closes >>

\* case <-a.stopChan: a.processInterval(); return
RunStopCloseFirst ==
    /\ Alive
    /\ runPc = "select"
    /\ stopClosed
    /\ cycle' = [final |-> TRUE, stopped |-> TRUE, nb |-> Len(adds)]
    /\ runPc' = "lock"
    /\ swapsBegun' = swapsBegun + 1
    /\ resultsClosed' = TRUE
    /\ closes' = closes + 1
    /\ UNCHANGED << unitVars, aggVars, ingestVars, consVars, callerVars, stopClosed,
                    feedClosed, intervalSnapshot, tickC, panicked, fires,
                    snaps, adds, discards >>

RunStop ==
    /\ Alive
    /\ runPc = "select"
    /\ stopClosed
    /\ cycle' = [final |-> TRUE, stopped |-> TRUE, nb |-> Len(adds)]
    /\ runPc' = "lock"
    /\ swapsBegun' = swapsBegun + 1
    /\ UNCHANGED << unitVars, aggVars, ingestVars, consVars, callerVars, stopClosed,
                    feedClosed, intervalSnapshot, resultsClosed, tickC,
                    panicked, fires, snaps, adds, discards, closes >>

\* a.mu.Lock() of processInterval
RunLock ==
    /\ Alive
    /\ runPc = "lock"
    /\ MuLock("run")
    /\ runPc' = "locked"
    /\ UNCHANGED << unitVars, intervalData, ingestVars, consVars, callerVars, histVars,
                    stopClosed, feedClosed, cycle, intervalSnapshot,
                    resultsClosed, tickC, panicked, fires >>

\* history: the number of Adds (calls of aggregatePacket that reach the
\* lock) begun so far
AddsBegun == Len(adds) + (IF ingestPc \in {"lock", "locked"} THEN 1 ELSE 0)

\* a swap that keeps a.mu locked while the result is sent
RunSwapHoldingLock ==
    /\ Alive
    /\ runPc = "locked"
    /\ LET copy == CopyData(intervalData) IN
         /\ intervalSnapshot' = [id |-> Len(snaps) + 1, data |-> copy]
         /\ snaps' = Append(snaps, [data |-> copy, total |-> TotalBytes(intervalData),
                                    final |-> cycle.final, stopped |-> cycle.stopped,
                                    closed |-> resultsClosed, nb |-> cycle.nb,
                                    ne |-> AddsBegun])
    /\ intervalData' = ResetData(intervalData)
    /\ mu' = mu
    /\ runPc' = "send"
    /\ UNCHANGED << unitVars, ingestVars, consVars, callerVars, stopClosed, feedClosed,
                    cycle, resultsClosed, tickC, panicked, fires, swapsBegun,
                    adds, discards, closes >>

\* the copy of the live map, its reset and a.mu.Unlock()
RunSwap ==
    /\ Alive
    /\ runPc = "locked"
    /\ LET copy == CopyData(intervalData) IN
         /\ intervalSnapshot' = [id |-> Len(snaps) + 1, data |-> copy]
         /\ snaps' = Append(snaps, [data |-> copy, total |-> TotalBytes(intervalData),
                                    final |-> cycle.final, stopped |-> cycle.stopped,
                                    closed |-> resultsClosed, nb |-> cycle.nb,
                                    ne |-> AddsBegun])
    /\ intervalData' = ResetData(intervalData)
    /\ mu' = "free"
    /\ runPc' = "send"
    /\ UNCHANGED << unitVars, ingestVars, consVars, callerVars, stopClosed, feedClosed,
                    cycle, resultsClosed, tickC, panicked, fires, swapsBegun,
                    adds, discards, closes >>

\* a hand-off after which the sender offers the same snapshot again
DeliverAgain(next) ==
    IF resultsClosed
    THEN /\ panicked' = "processInterval"
         /\ UNCHANGED << runPc, intervalSnapshot, consPc, consData >>
    ELSE /\ consPc = "select"
         /\ consPc' = "process"
         /\ consData' = intervalSnapshot
         /\ UNCHANGED << runPc, intervalSnapshot, panicked >>

\* the hand-off of a send on the unbuffered resultsChan to Monitor.Run at
\* its select; a send on a closed channel panics
Deliver(next) ==
    IF resultsClosed
    THEN /\ panicked' = "processInterval"
         /\ UNCHANGED << runPc, intervalSnapshot, consPc, consData >>
    ELSE /\ consPc = "select"
         /\ consPc' = "process"
         /\ consData' = intervalSnapshot
         /\ intervalSnapshot' = NoMsg
         /\ runPc' = next
         /\ UNCHANGED panicked

\* Monitor.Run waits in the receive of its select: it is at the select and
\* m.stopChan is open.  The close of m.stopChan wakes a waiting Monitor.Run
\* for its stop case, and a Monitor.Run that comes to the select later finds
\* the stop case ready and does not wait.
ReceiverWaits == consPc = "select" /\ ~mStopClosed

\* select, case a.resultsChan <- intervalSnapshot: ready while a receiver
\* waits (or the channel is closed)
RunSend ==
    /\ Alive
    /\ runPc = "send"
    /\ resultsClosed \/ ReceiverWaits
    /\ Deliver(AfterCycle(cycle))
    /\ UNCHANGED << unitVars, aggVars, ingestVars, callerVars, histVars, stopClosed,
                    feedClosed, cycle, resultsClosed, tickC, received, fires >>

\* a select that drops the result whenever no receiver is parked
RunSendDiscardNoReceiver ==
    /\ Alive
    /\ runPc = "send"
    /\ ~ReceiverWaits
    /\ discards' = Append(discards, intervalSnapshot.id)
    /\ intervalSnapshot' = NoMsg
    /\ runPc' = AfterCycle(cycle)
    /\ UNCHANGED << unitVars, aggVars, ingestVars, consVars, callerVars, stopClosed,
                    feedClosed, cycle, resultsClosed, tickC, panicked, fires,
                    swapsBegun, snaps, adds, closes >>

\* select, case <-a.stopChan: the result is discarded
RunSendDiscard ==
    /\ Alive
    /\ runPc = "send"
    /\ stopClosed
    /\ discards' = Append(discards, intervalSnapshot.id)
    /\ intervalSnapshot' = NoMsg
    /\ runPc' = AfterCycle(cycle)
    /\ UNCHANGED << unitVars, aggVars, ingestVars, consVars, callerVars, stopClosed,
                    feedClosed, cycle, resultsClosed, tickC, panicked, fires,
                    swapsBegun, snaps, adds, closes >>

\* select, default: no receiver waits and stopChan is open
RunSendDefault ==
    /\ Alive
    /\ runPc = "send"
    /\ ~stopClosed
    /\ ~resultsClosed
    /\ ~ReceiverWaits
    /\ runPc' = "blocked"
    /\ UNCHANGED << unitVars, aggVars, ingestVars, consVars, callerVars, histVars,
                    stopClosed, feedClosed, cycle, intervalSnapshot,
                    resultsClosed, tickC, panicked, fires >>

\* the plain send a.resultsChan <- intervalSnapshot of the default case:
\* the sender waits in it, and Monitor.Run takes the window when its select
\* chooses the receive, which with m.stopChan closed is one of two cases
\* that are ready
RunBlockedSend ==
    /\ Alive
    /\ runPc = "blocked"
    /\ Deliver(AfterCycle(cycle))
    /\ UNCHANGED << unitVars, aggVars, ingestVars, callerVars, histVars, stopClosed,
                    feedClosed, cycle, resultsClosed, tickC, received, fires >>

\* return of run: the deferred close(a.resultsChan)
RunReturn ==
    /\ Alive
    /\ runPc = "return"
    /\ runPc' = "done"
    /\ IF resultsClosed
       THEN panicked' = "run" /\ UNCHANGED << resultsClosed, closes >>
       ELSE resultsClosed' = TRUE /\ closes' = closes + 1 /\ UNCHANGED panicked
    /\ UNCHANGED << unitVars, aggVars, ingestVars, consVars, callerVars, stopClosed,
                    feedClosed, cycle, intervalSnapshot, tickC, fires,
                    swapsBegun, snaps, adds, discards >>

----
(* The sequential, pointer-level view: aggregatePacket, the critical section
   of processInterval and CalculateSpeedMbps called one after another, the
   map entries being pointers to TrafficData objects *)

\* the Bytes of the objects the entries of m point to
Deref(m, cs) == [ip \in DOMAIN m |-> cs[m[ip]]]

\* the objects the entries of m point to
Addresses(m) == { m[ip] : ip \in DOMAIN m }

\* m[k] = v
Put(m, k, v) == [x \in DOMAIN m \cup {k} |-> IF x = k THEN v ELSE m[x]]

\* the record of a call of fn: its arguments, its result and the accumulator
\* it found
ThisCall(fn) ==
    [fn |-> fn, packet |-> NoPacket, bytes |-> Int64(0), interval |-> Int64(0),
     speed |-> NoSpeed, cellsBefore |-> cells, liveBefore |-> liveMap]

\* aggregatePacket(packet): the early return, else the entry is looked up or
\* created with &TrafficData{} and its Bytes are increased
AggregatePacket ==
    /\ calls < MaxCalls
    /\ calls' = calls + 1
    /\ \E p \in UnitPackets :
         /\ call' = [ThisCall("aggregatePacket") EXCEPT !.packet = p]
         /\ IF Discarded(p)
            THEN UNCHANGED << cells, liveMap >>
            ELSE LET ip == SrcIP(p)
                     exists == ip \in DOMAIN liveMap
                     data == IF exists THEN liveMap[ip] ELSE Len(cells) + 1
                     cs == IF exists THEN cells ELSE Append(cells, 0)
                 IN /\ liveMap' = Put(liveMap, ip, data)
                    /\ cells' = [cs EXCEPT ![data] = @ + PacketSize(p)]
    /\ UNCHANGED << progVars, monVars, cfg, sentMaps, sentVals >>

\* intervalSnapshot and the objects allocated after the entries of ips have
\* been copied with &TrafficData{Bytes: data.Bytes}
RECURSIVE CopyEntries(_, _, _)
CopyEntries(ips, snapshot, cs) ==
    IF ips = {} THEN [map |-> snapshot, cells |-> cs]
    ELSE LET ip == CHOOSE x \in ips : TRUE
         IN CopyEntries(ips \ {ip}, Put(snapshot, ip, Len(cs) + 1),
                        Append(cs, cs[liveMap[ip]]))

\* a swap that keeps the keys of the live map and gives each a fresh counter
\* of zero
SwapAndResetKeepingKeys ==
    /\ calls < MaxCalls
    /\ calls' = calls + 1
    /\ call' = ThisCall("processInterval")
    /\ LET copy == CopyEntries(DOMAIN liveMap, EmptyMap, cells)
           n == Len(copy.cells)
           ips == DOMAIN liveMap
           fresh == CHOOSE f \in [ips -> n + 1 .. n + Cardinality(ips)] :
                       \A a, b \in ips : a # b => f[a] # f[b]
       IN /\ sentMaps' = Append(sentMaps, copy.map)
          /\ cells' = copy.cells \o [i \in 1 .. Cardinality(ips) |-> 0]
          /\ liveMap' = fresh
    /\ sentVals' = Append(sentVals, Deref(liveMap, cells))
    /\ UNCHANGED << progVars, monVars, cfg >>

\* a swap that hands out the live map itself and zeroes its counters in
\* place
SwapAndResetInPlace ==
    /\ calls < MaxCalls
    /\ calls' = calls + 1
    /\ call' = ThisCall("processInterval")
    /\ sentMaps' = Append(sentMaps, liveMap)
    /\ sentVals' = Append(sentVals, Deref(liveMap, cells))
    /\ cells' = [i \in DOMAIN cells |->
                   IF i \in Addresses(liveMap) THEN 0 ELSE cells[i]]
    /\ UNCHANGED << progVars, monVars, cfg, liveMap >>

\* the critical section of processInterval: the deep copy of the live map
\* and its replacement by a new map
SwapAndReset ==
    /\ calls < MaxCalls
    /\ calls' = calls + 1
    /\ call' = ThisCall("processInterval")
    /\ LET copy == CopyEntries(DOMAIN liveMap, EmptyMap, cells)
       IN /\ sentMaps' = Append(sentMaps, copy.map)
          /\ cells' = copy.cells
    /\ sentVals' = Append(sentVals, Deref(liveMap, cells))
    /\ liveMap' = EmptyMap
    /\ UNCHANGED << progVars, monVars, cfg >>

\* a call of CalculateSpeedMbps
CalculateSpeed ==
    /\ \E bytes \in SpeedBytes, interval \in SpeedIntervals :
         call' = [ThisCall("CalculateSpeedMbps") EXCEPT
                    !.bytes = bytes, !.interval = interval,
                    !.speed = SpeedMbps[bytes, interval]]
    /\ UNCHANGED << progVars, monVars, cfg, calls, cells, liveMap, sentMaps,
                    sentVals >>

\* 2^55 as an int: its product with time.Second is 5^9 * 2^64
TwoTo55 == [neg |-> FALSE, mag |-> Shl(<< 1 >>, 55)]

\* cfg.IntervalSeconds as passed to NewAggregator: -1, 0, 1, 5, 601, and
\* 2^55 - 1, 2^55, 2^55 + 1, whose product with time.Second leaves int64
IntervalSecondsCases ==
    {Int64(0 - 1), Int64(0), Int64(1), Int64(5), Int64(601),
     [TwoTo55 EXCEPT !.mag = NatSub(@, << 1 >>)], TwoTo55,
     [TwoTo55 EXCEPT !.mag = NatAdd(@, << 1 >>)]}

\* NewAggregator keeping the IntervalSeconds it is given
IntervalSecondsAsGiven(n) == n

\* NewAggregator: a non-positive cfg.IntervalSeconds is replaced by 5
IntervalSecondsUsed(n) == IF Int64LE0(n) THEN Int64(5) ELSE n

\* NewAggregator: a.interval = time.Duration(cfg.IntervalSeconds) *
\* time.Second, a product in int64 that wraps modulo 2^64, and whether
\* time.NewTicker(interval) panics ("non-positive interval for NewTicker")
NewTicker(interval) == [interval |-> interval, panic |-> Int64LE0(interval)]

NewAggregator(n) == NewTicker(Int64Mul(IntervalSecondsUsed(n), Second))

\* processInterval: intervalSeconds <= 0, the branch that floors it to 1
Floored(interval) == LessOrEqual(Seconds(interval), Zero(FALSE))

\* processInterval: intervalSeconds after the check
AtLeastOne(intervalSeconds) ==
    IF LessOrEqual(intervalSeconds, Zero(FALSE)) THEN Float64(Int64(1))
    ELSE intervalSeconds

\* processInterval: overallSpeedMbps of a cycle
OverallSpeedMbps(totalBytes, interval) ==
    Mbps(totalBytes, AtLeastOne(Seconds(interval)))

\* NewAggregator on those values and the rate processInterval then computes
\* for a window of totalBytes, computed once
CycleOf(agg, totalBytes) ==
    [panic            |-> agg.panic,
     interval         |-> agg.interval,
     floored          |-> ~agg.panic /\ Floored(agg.interval),
     overallSpeedMbps |->
         IF agg.panic THEN NoSpeed
         ELSE OverallSpeedMbps(totalBytes, agg.interval)]

WindowRates ==
    [n \in IntervalSecondsCases, totalBytes \in SpeedBytes |->
        CycleOf(NewAggregator(n), totalBytes)]

\* NewAggregator with cfg.IntervalSeconds = n, then the rate processInterval
\* computes for a window of totalBytes
WindowRateCall(n, totalBytes, r) ==
    [fn               |-> "NewAggregator",
     IntervalSeconds  |-> n,
     panic            |-> r.panic,
     interval         |-> r.interval,
     totalBytes       |-> totalBytes,
     floored          |-> r.floored,
     overallSpeedMbps |-> r.overallSpeedMbps]

WindowRate ==
    /\ \E n \in IntervalSecondsCases, totalBytes \in SpeedBytes :
         call' = WindowRateCall(n, totalBytes, WindowRates[n, totalBytes])
    /\ UNCHANGED << progVars, monVars, cfg, calls, cells, liveMap, sentMaps,
                    sentVals >>

UnitNext ==
    \/ AggregatePacket
    \/ SwapAndReset
    \/ CalculateSpeed
    \/ WindowRate

UnitSpec == Init /\ [][UnitNext]_vars

----
(***************************************************************************)
(* Configuration: LoadConfig (internal/discord/webhook.go, 272-379).       *)
(* The three sources of a run are its command-line flags, its NM_          *)
(* environment variables and its config file.  A source is a record over   *)
(* the keys it sets.  A value carries its kind, as reflect reports it to   *)
(* mapstructure: pflag types the flags, YAML types the values of the file, *)
(* the values of the environment are strings.  viper.Unmarshal decodes a   *)
(* value into its field by the kind of the field and the kind of the       *)
(* value.                                                                  *)
(***************************************************************************)

StringValue(s) == [kind |-> "string", s |-> s]
IntValue(i) == [kind |-> "int", i |-> i]
FloatValue(x) == [kind |-> "float", f |-> x]
BoolValue(b) == [kind |-> "bool", b |-> b]
\* a YAML sequence
Slice == [kind |-> "slice"]
\* a YAML null
Null == [kind |-> "null"]

(* strconv, as mapstructure's weakly typed decoding calls it on a string.  *)
(* Strings are read byte by byte with Head and Tail.                       *)

DecimalDigits == {"0", "1", "2", "3", "4", "5", "6", "7", "8", "9"}

HexLetters == {"a", "b", "c", "d", "e", "f", "A", "B", "C", "D", "E", "F"}

\* the value of a byte as a digit; 36 for a byte that is a digit in no base
\* up to 16
DigitValue(c) ==
    CASE c = "0" -> 0 [] c = "1" -> 1 [] c = "2" -> 2 [] c = "3" -> 3
      [] c = "4" -> 4 [] c = "5" -> 5 [] c = "6" -> 6 [] c = "7" -> 7
      [] c = "8" -> 8 [] c = "9" -> 9
      [] c \in {"a", "A"} -> 10 [] c \in {"b", "B"} -> 11
      [] c \in {"c", "C"} -> 12 [] c \in {"d", "D"} -> 13
      [] c \in {"e", "E"} -> 14 [] c \in {"f", "F"} -> 15
      [] OTHER -> 36

\* lower(c) of strconv for the letters of "infinity" and "nan"
Lower(c) ==
    CASE c = "I" -> "i" [] c = "N" -> "n" [] c = "F" -> "f" [] c = "T" -> "t"
      [] c = "Y" -> "y" [] c = "A" -> "a" [] OTHER -> c

RECURSIVE ToLower(_)
ToLower(s) == IF s = "" THEN "" ELSE Lower(Head(s)) \o ToLower(Tail(s))

\* the loop of strconv.underscoreOK: i is the class of the previous byte
RECURSIVE UnderscoreScan(_, _, _)
UnderscoreScan(s, i, hex) ==
    IF s = "" THEN i # "_"
    ELSE LET c == Head(s)
         IN  IF c \in DecimalDigits \/ (hex /\ c \in HexLetters)
             THEN UnderscoreScan(Tail(s), "0", hex)
             ELSE IF c = "_"
             THEN i = "0" /\ UnderscoreScan(Tail(s), "_", hex)
             ELSE i # "_" /\ UnderscoreScan(Tail(s), "!", hex)

\* strconv.underscoreOK: underscores only between digits or between a base
\* prefix and a digit
UnderscoreOK(s) ==
    LET t == IF s # "" /\ Head(s) \in {"+", "-"} THEN Tail(s) ELSE s
        prefixed == /\ Len(t) >= 2
                    /\ Head(t) = "0"
                    /\ Head(Tail(t)) \in {"b", "B", "o", "O", "x", "X"}
    IN  IF prefixed
        THEN UnderscoreScan(Tail(Tail(t)), "0", Head(Tail(t)) \in {"x", "X"})
        ELSE UnderscoreScan(t, "^", FALSE)

\* what a function of strconv returns: the value and the error
Parsed(v) == [err |-> "nil", v |-> v]
ErrSyntax(v) == [err |-> "syntax", v |-> v]
ErrRange(v) == [err |-> "range", v |-> v]

\* 2^64 - 1
MaxUint64 == NatSub(Shl(<< 1 >>, 64), << 1 >>)

\* the digit loop of strconv.ParseUint with base 0 given: n is the value so
\* far, cutoff the least n for which n * base leaves 64 bits
RECURSIVE ParseUintLoop(_, _, _, _)

\* n1 := n * base + d, unless it leaves 64 bits
ParseUintNext(rest, base, cutoff, n1) ==
    IF BitLen(n1) > 64 THEN ErrRange(MaxUint64)
    ELSE ParseUintLoop(rest, base, cutoff, n1)

\* the digit d of the byte read
ParseUintDigit(rest, base, cutoff, n, d) ==
    IF d >= base THEN ErrSyntax(<< >>)
    ELSE IF NatCmp(n, cutoff) >= 0 THEN ErrRange(MaxUint64)
    ELSE ParseUintNext(rest, base, cutoff,
                       NatAdd(NatMulDigit(n, base), Natural(d)))

ParseUintLoop(s, base, cutoff, n) ==
    IF s = "" THEN Parsed(n)
    ELSE IF Head(s) = "_" THEN ParseUintLoop(Tail(s), base, cutoff, n)
    ELSE ParseUintDigit(Tail(s), base, cutoff, n, DigitValue(Head(s)))

\* the digits of s in a base: cutoff := maxUint64/base + 1, then the loop
ParseUintBase(s, base) ==
    ParseUintLoop(s, base, NatAdd(NatDivMod(MaxUint64, << base >>).q, << 1 >>),
                  << >>)

\* the end of ParseUint: the underscores of s are checked when base 0 was
\* given and the digits were read
UnderscoreChecked(s, r) ==
    IF r.err = "nil" /\ ~UnderscoreOK(s) THEN ErrSyntax(<< >>) ELSE r

\* strconv.ParseUint(s, 0, 64): the base is taken from the prefix
ParseUint(s) ==
    IF s = "" THEN ErrSyntax(<< >>)
    ELSE LET long == Len(s) >= 3
             p == IF Len(s) >= 2 THEN Head(Tail(s)) ELSE ""
             base == IF Head(s) # "0" THEN 10
                     ELSE IF long /\ p \in {"b", "B"} THEN 2
                     ELSE IF long /\ p \in {"o", "O"} THEN 8
                     ELSE IF long /\ p \in {"x", "X"} THEN 16
                     ELSE 8
             digits == IF Head(s) # "0" THEN s
                       ELSE IF long /\ p \in {"b", "B", "o", "O", "x", "X"}
                       THEN Tail(Tail(s))
                       ELSE Tail(s)
         IN  UnderscoreChecked(s, ParseUintBase(digits, base))

\* the int64 of ParseInt for the sign and what ParseUint returned
SignedParsed(neg, un) ==
    LET cutoff == Shl(<< 1 >>, 63)
    IN  IF un.err = "syntax" THEN ErrSyntax(Int64(0))
        ELSE IF ~neg /\ NatCmp(un.v, cutoff) >= 0
        THEN ErrRange([neg |-> FALSE, mag |-> NatSub(cutoff, << 1 >>)])
        ELSE IF neg /\ NatCmp(un.v, cutoff) > 0
        THEN ErrRange([neg |-> TRUE, mag |-> cutoff])
        ELSE Parsed([neg |-> neg /\ un.v # << >>, mag |-> un.v])

\* strconv.ParseInt(s, 0, 64): a range error of ParseUint, or a value past
\* 2^63 - 1 or -2^63, is a range error with the nearest int64
ParseInt(s) ==
    IF s = "" THEN ErrSyntax(Int64(0))
    ELSE SignedParsed(Head(s) = "-",
                      ParseUint(IF Head(s) \in {"+", "-"} THEN Tail(s) ELSE s))

\* strconv.ParseBool
ParseBool(s) ==
    IF s \in {"1", "t", "T", "TRUE", "true", "True"} THEN Parsed(TRUE)
    ELSE IF s \in {"0", "f", "F", "FALSE", "false", "False"} THEN Parsed(FALSE)
    ELSE ErrSyntax(FALSE)

\* The mantissa loop of strconv's readFloat, and of decimal.set with room
\* for 800 digits: st holds the digits read (nd), those kept in the
\* mantissa (ndMant, at most maxMantDigits), the position of the point
\* (dp), the mantissa, whether a digit was dropped that counts (trunc), and
\* what has been seen; the result adds the unread rest of the string.
RECURSIVE ReadMantissa(_, _, _, _)
ReadMantissa(s, base, maxMantDigits, st) ==
    IF s = "" THEN [st EXCEPT !.rest = ""]
    ELSE LET c == Head(s)
         IN  IF c = "_" THEN ReadMantissa(Tail(s), base, maxMantDigits, st)
             ELSE IF c = "."
             THEN IF st.sawdot THEN [st EXCEPT !.rest = s]
                  ELSE ReadMantissa(Tail(s), base, maxMantDigits,
                                    [st EXCEPT !.sawdot = TRUE, !.dp = st.nd])
             ELSE IF c \in DecimalDigits \/ (base = 16 /\ c \in HexLetters)
             THEN IF c = "0" /\ st.nd = 0
                  THEN ReadMantissa(Tail(s), base, maxMantDigits,
                                    [st EXCEPT !.sawdigits = TRUE,
                                               !.dp = st.dp - 1])
                  ELSE IF st.ndMant < maxMantDigits
                  THEN ReadMantissa(Tail(s), base, maxMantDigits,
                                    [st EXCEPT !.sawdigits = TRUE,
                                               !.nd = st.nd + 1,
                                               !.ndMant = st.ndMant + 1,
                                               !.mantissa =
                                                   NatAdd(NatMulDigit(st.mantissa, base),
                                                          Natural(DigitValue(c)))])
                  ELSE ReadMantissa(Tail(s), base, maxMantDigits,
                                    [st EXCEPT !.sawdigits = TRUE,
                                               !.nd = st.nd + 1,
                                               !.trunc = st.trunc \/ c # "0"])
             ELSE [st EXCEPT !.rest = s]

\* the digits of the exponent of readFloat: e is capped as in the code
RECURSIVE ReadExponent(_, _)
ReadExponent(s, e) ==
    IF s = "" THEN [e |-> e, rest |-> ""]
    ELSE LET c == Head(s)
         IN  IF c = "_" THEN ReadExponent(Tail(s), e)
             ELSE IF c \in DecimalDigits
             THEN ReadExponent(Tail(s),
                               IF e < 10000 THEN e * 10 + DigitValue(c) ELSE e)
             ELSE [e |-> e, rest |-> s]

\* the end of readFloat: m is what the mantissa loop returned, marked
\* whether the exponent mark follows it, w the digits of the exponent with
\* the sign esign, ex what the exponent loop returned
ReadFloatResult(s, neg, hex, m, marked, esign, w, ex) ==
    LET bits == IF hex THEN 4 ELSE 1
        rest == IF marked THEN ex.rest ELSE m.rest
        dp == (IF m.sawdot THEN m.dp ELSE m.nd) * bits
              + (IF marked THEN ex.e * esign ELSE 0)
        ok == /\ m.sawdigits
              /\ marked => w # "" /\ Head(w) \in DecimalDigits
              /\ ~marked => ~hex
              /\ UnderscoreOK(SubSeq(s, 1, Len(s) - Len(rest)))
    IN  [ok |-> ok, neg |-> neg, hex |-> hex, mantissa |-> m.mantissa,
         ndMant |-> m.ndMant * bits, dp |-> dp, trunc |-> m.trunc,
         exp |-> IF m.mantissa # << >> THEN dp - m.ndMant * bits ELSE 0,
         rest |-> rest]

\* the exponent of readFloat after the mantissa m
ReadFloatExponent(s, neg, hex, m) ==
    LET marked == m.rest # ""
                    /\ Head(m.rest) \in (IF hex THEN {"p", "P"} ELSE {"e", "E"})
        u == IF marked THEN Tail(m.rest) ELSE m.rest
        esign == IF u # "" /\ Head(u) = "-" THEN 0 - 1 ELSE 1
        w == IF u # "" /\ Head(u) \in {"+", "-"} THEN Tail(u) ELSE u
    IN  ReadFloatResult(s, neg, hex, m, marked, esign, w, ReadExponent(w, 0))

\* strconv's readFloat with room for maxMantDigits decimal digits: ok, the
\* sign, the mantissa and the digits kept in it, the position of the point
\* after the exponent is added, and the unread rest of s.  In base 16 the
\* mantissa has room for 16 digits, the positions count bits and the
\* exponent "p" is required.
ReadFloat(s, maxMantDigits) ==
    LET neg == s # "" /\ Head(s) = "-"
        t == IF s # "" /\ Head(s) \in {"+", "-"} THEN Tail(s) ELSE s
        hex == Len(t) > 2 /\ Head(t) = "0" /\ Head(Tail(t)) \in {"x", "X"}
    IN  ReadFloatExponent(s, neg, hex,
            ReadMantissa(IF hex THEN Tail(Tail(t)) ELSE t,
                         IF hex THEN 16 ELSE 10,
                         IF hex THEN 16 ELSE maxMantDigits,
                         [sawdot |-> FALSE, sawdigits |-> FALSE, nd |-> 0,
                          ndMant |-> 0, dp |-> 0, mantissa |-> << >>,
                          trunc |-> FALSE, rest |-> ""]))

\* an infinity is a range error
RangeChecked(f) == IF f.inf THEN ErrRange(f) ELSE Parsed(f)

\* strconv's atofHex: the float64 nearest to mantissa * 2^exp, beyond the
\* mantissa when digits were dropped; an infinity is a range error
AtofHex(r) == RangeChecked(RoundToEven(r.neg, r.mantissa, r.trunc, r.exp))

\* strconv's floatBits of decimal on the digits decimal.set reads from s:
\* the float64 nearest to 0.d1d2... * 10^dp, zero below 10^-330 and an
\* infinity with a range error above 10^310 or past the largest float64
FloatBits(d) ==
    LET e == d.dp - d.ndMant
    IN  IF d.mantissa = << >> THEN Parsed(Zero(d.neg))
        ELSE IF d.dp > 310 THEN ErrRange(Inf(d.neg))
        ELSE IF d.dp < 0 - 330 THEN Parsed(Zero(d.neg))
        ELSE IF e >= 0
        THEN RangeChecked(RoundToEven(d.neg,
                                      NatMul(d.mantissa, NatPower(10, e)),
                                      d.trunc, 0))
        ELSE RangeChecked(RoundQuotient(d.neg, d.mantissa,
                                        NatPower(10, 0 - e), d.trunc, 0))

\* what ParseFloat returns when readFloat with room for 19 digits returned
\* r: the text must be read to its end; a decimal is then read again with
\* room for 800 digits
ParseFloatRead(s, r) ==
    IF ~r.ok \/ r.rest # "" THEN ErrSyntax(Zero(FALSE))
    ELSE IF r.hex THEN AtofHex(r)
    ELSE FloatBits(ReadFloat(s, 800))

\* strconv.ParseFloat(s, 64): "NaN", and "Inf" or "Infinity" with an
\* optional sign, in any case; else readFloat, which must read the whole
\* string, then the conversion of what it read
ParseFloat(s) ==
    LET signed == s # "" /\ Head(s) \in {"+", "-"}
        body == ToLower(IF signed THEN Tail(s) ELSE s)
    IN  IF body \in {"inf", "infinity"} THEN Parsed(Inf(Head(s) = "-"))
        ELSE IF ~signed /\ body = "nan" THEN Parsed(NaN)
        ELSE ParseFloatRead(s, ReadFloat(s, 19))

\* the decimal digit d as a character
DigitChar(d) == SubSeq("0123456789", d + 1, d + 1)

\* the natural a below 10^n in n decimal digits, by halves of n
RECURSIVE Digits(_, _)

\* the high digits d.q and the h low digits d.r
DigitsOfHalves(d, n, h) == Digits(d.q, n - h) \o Digits(d.r, h)

Digits(a, n) ==
    IF n <= 0 THEN ""
    ELSE IF n = 1 THEN DigitChar(Digit(a, 1))
    ELSE DigitsOfHalves(NatDivMod(a, NatPower(10, n \div 2)), n, n \div 2)

\* n zeros
Zeros(n) == Digits(<< >>, n)

\* the number of decimal digits of the natural a, 0 for zero
DecimalLen(a) ==
    LET n == (BitLen(a) * 30103) \div 100000
    IN  IF a = << >> THEN 0
        ELSE IF NatCmp(a, NatPower(10, n)) >= 0 THEN n + 1 ELSE n

\* the natural a in decimal
FormatNat(a) == IF a = << >> THEN "0" ELSE Digits(a, DecimalLen(a))

\* strconv.FormatInt(i, 10)
FormatInt(i) == (IF i.neg THEN "-" ELSE "") \o FormatNat(i.mag)

\* The shortest decimal that reads back as the finite float64 x # 0
\* (roundShortest): with x = m * 2^e in its 53-bit form, the values between
\* the half-way points to the neighbours of x read back as x, the
\* half-way points themselves when m is even.  At the decimal position k,
\* down = q * 10^k is x cut after that position and up = (q + 1) * 10^k; the
\* result is taken at the highest position where one of them reads back as
\* x, and is the nearer of the two when both do, the even one on a tie.
\* The values are held as naturals over the common denominator den.
RECURSIVE ShortestFrom(_, _, _, _, _, _)

\* the choice at the position k: d.q is x cut there, cl compares down with
\* the lower bound, cu compares up with the upper one, half compares the
\* part cut off with the half of the position
ShortestChoice(m4, lower4, upper4, inclusive, e, k, d, cl, cu, half) ==
    LET okdown == cl > 0 \/ (inclusive /\ cl = 0)
        okup == cu < 0 \/ (inclusive /\ cu = 0)
        roundup == half > 0 \/ (half = 0 /\ IsOdd(d.q))
    IN  IF okdown /\ okup
        THEN [digits |-> IF roundup THEN NatAdd(d.q, << 1 >>) ELSE d.q, k |-> k]
        ELSE IF okdown THEN [digits |-> d.q, k |-> k]
        ELSE IF okup THEN [digits |-> NatAdd(d.q, << 1 >>), k |-> k]
        ELSE ShortestFrom(m4, lower4, upper4, inclusive, e, k - 1)

\* down and up at the position k, over the denominator den
ShortestCut(m4, lower4, upper4, inclusive, e, k, num, den, d) ==
    ShortestChoice(m4, lower4, upper4, inclusive, e, k, d,
                   NatCmp(NatMul(d.q, den), NatMul(lower4, num)),
                   NatCmp(NatAdd(NatMul(d.q, den), den), NatMul(upper4, num)),
                   NatCmp(Shl(d.r, 1), den))

\* x = m4 * num / (4 * den) in units of the position k
ShortestOver(m4, lower4, upper4, inclusive, e, k, num, den) ==
    ShortestCut(m4, lower4, upper4, inclusive, e, k, num, den,
                NatDivMod(NatMul(m4, num), den))

ShortestFrom(m4, lower4, upper4, inclusive, e, k) ==
    ShortestOver(m4, lower4, upper4, inclusive, e, k,
                 NatMul(Shl(<< 1 >>, IF e > 0 THEN e ELSE 0),
                        NatPower(10, IF k < 0 THEN 0 - k ELSE 0)),
                 NatMul(Shl(<< 1 >>, IF e < 0 THEN 0 - e ELSE 0),
                        NatPower(10, IF k > 0 THEN k ELSE 0)))

\* the digits as text, nd of them
ShortestText(s, nd) == [d |-> Digits(s.digits, nd), nd |-> nd, dp |-> nd + s.k]

\* the search from the first position that can hold a digit of the upper
\* bound
ShortestBetween(m4, lower4, upper4, inclusive, e) ==
    LET top == BitLen(upper4) + e - 2
        k0 == IF top >= 0 THEN (top * 30103) \div 100000 + 1
              ELSE 0 - (((0 - top) * 30102) \div 100000)
    IN  ShortestFrom(m4, lower4, upper4, inclusive, e - 2, k0)

\* x = m * 2^e with m of 53 bits, or fewer at the exponent -1074; the
\* lower neighbour is at half the distance when m is a power of two
ShortestOfBits(m4, e, inclusive, closer) ==
    ShortestBetween(m4,
                    IF closer THEN NatSub(m4, << 1 >>) ELSE NatSub(m4, << 2 >>),
                    NatAdd(m4, << 2 >>), inclusive, e)

\* the digits found, with their number
ShortestCounted(s) == ShortestText(s, DecimalLen(s.digits))

\* the digits nd, d and the position dp of the decimal point of the
\* shortest decimal of x: x reads 0.d * 10^dp
Shortest(x) ==
    LET sh == IF 53 - BitLen(x.mant) < x.exp + 1074 THEN 53 - BitLen(x.mant)
              ELSE x.exp + 1074
    IN  IF x.mant = << >> THEN [d |-> "", nd |-> 0, dp |-> 0]
        ELSE ShortestCounted(
                 ShortestOfBits(Shl(x.mant, sh + 2), x.exp - sh,
                                ~IsOdd(Shl(x.mant, sh)),
                                BitLen(x.mant) = 1 /\ x.exp - sh > 0 - 1074))

\* %f with as many decimals as the digits need
FmtF(neg, digs) ==
    (IF neg THEN "-" ELSE "")
      \o (IF digs.dp > 0
          THEN SubSeq(digs.d, 1, IF digs.nd < digs.dp THEN digs.nd ELSE digs.dp)
                 \o Zeros(digs.dp - digs.nd)
          ELSE "0")
      \o (IF digs.nd > digs.dp
          THEN "." \o Zeros(0 - digs.dp)
                 \o SubSeq(digs.d, (IF digs.dp > 0 THEN digs.dp ELSE 0) + 1, digs.nd)
          ELSE "")

\* %e with all the digits: d.ddde+xx, the exponent in two digits at least
FmtE(neg, digs) ==
    LET exp == IF digs.nd = 0 THEN 0 ELSE digs.dp - 1
        abs == IF exp < 0 THEN 0 - exp ELSE exp
    IN  (IF neg THEN "-" ELSE "")
          \o (IF digs.nd = 0 THEN "0" ELSE SubSeq(digs.d, 1, 1))
          \o (IF digs.nd > 1 THEN "." \o SubSeq(digs.d, 2, digs.nd) ELSE "")
          \o "e" \o (IF exp < 0 THEN "-" ELSE "+")
          \o (IF abs < 10 THEN "0" ELSE "") \o FormatNat(Natural(abs))

\* the digits in the format: 'g' is %e when the exponent is below -4 or
\* at least 6, the eprec of strconv for the shortest digits
FormatDigits(neg, fmt, digs) ==
    IF fmt = "g" /\ (digs.dp - 1 < 0 - 4 \/ digs.dp - 1 >= 6)
    THEN FmtE(neg, digs)
    ELSE FmtF(neg, digs)

\* strconv.FormatFloat(x, fmt, -1, 64) for fmt 'f' and 'g'
FormatFloat(x, fmt) ==
    IF x.nan THEN "NaN"
    ELSE IF x.inf THEN (IF x.neg THEN "-Inf" ELSE "+Inf")
    ELSE FormatDigits(x.neg, fmt, Shortest(x))

Keys ==
    {"interface", "threshold_mbps", "webhook_url", "interval_seconds",
     "top_n", "metrics_enabled", "metrics_port"}

\* The mapstructure tags of the Config struct: key |-> field.
Field ==
    [interface        |-> "InterfaceName",
     threshold_mbps   |-> "ThresholdMbps",
     webhook_url      |-> "WebhookURL",
     interval_seconds |-> "IntervalSeconds",
     top_n            |-> "TopN",
     metrics_enabled  |-> "MetricsEnabled",
     metrics_port     |-> "MetricsPort"]

\* viper.SetDefault(...)
Defaults ==
    [interface        |-> StringValue(""),
     threshold_mbps   |-> FloatValue(Float64(Int64(100))),
     webhook_url      |-> StringValue(""),
     interval_seconds |-> IntValue(Int64(60)),
     top_n            |-> IntValue(Int64(5)),
     metrics_enabled  |-> BoolValue(TRUE),
     metrics_port     |-> StringValue("9090")]

\* The field ConfigFile has no mapstructure tag: its key is its name, which
\* mapstructure matches ignoring case and viper holds in lower case.
FieldKey == "configfile"

\* the path given with --config
ConfigPath == "config.yaml"

\* pflag.StringVar(&cfg.ConfigFile, "config", "", ...): what pflag.Parse
\* stores in cfg.ConfigFile
ConfigFlag(explicit) == IF explicit THEN ConfigPath ELSE ""

IntKeys == {"interval_seconds", "top_n"}
FloatKeys == {"threshold_mbps"}
BoolKeys == {"metrics_enabled"}

NoSource == [k \in {} |-> ""]

\* The config file the run would read: absent, present but not parsable, or
\* parsed into the keys it sets.
FileMissing == [state |-> "missing"]
FileUnparsable == [state |-> "unparsable"]
FileParsed(content) == [state |-> "parsed", content |-> content]

\* a config file that sets five keys; top_n is written as a string
ConfigYAML ==
    FileParsed([interface        |-> StringValue("file_iface"),
                threshold_mbps   |-> IntValue(Int64(1)),
                webhook_url      |-> StringValue("file.hook"),
                interval_seconds |-> IntValue(Int64(1)),
                top_n            |-> StringValue("2")])

\* the sources of one run: flags, environment, config file, and whether
\* the path of the file was given with --config
Run(flags, env, file, explicit) ==
    [flags |-> flags, env |-> env, file |-> file, explicit |-> explicit]

\* The runs of the program.  The values of the flags are those pflag has
\* parsed (pflag.Changed); "" in the environment is a variable that is set
\* to the empty string.
Runs ==
    {Run(NoSource, NoSource, FileMissing, FALSE),
     Run(NoSource, NoSource, ConfigYAML, FALSE),
     Run(NoSource, NoSource, ConfigYAML, TRUE),
     Run(NoSource, NoSource, FileMissing, TRUE),
     Run(NoSource, NoSource, FileUnparsable, FALSE),
     Run([interface |-> StringValue("flag_iface"), webhook_url |-> StringValue("flag.hook")],
         [interface |-> "env_iface", threshold_mbps |-> "4", top_n |-> "10"],
         ConfigYAML, FALSE),
     Run([threshold_mbps |-> FloatValue(Float64(Int64(8))),
          interval_seconds |-> IntValue(Int64(1)), top_n |-> IntValue(Int64(2))],
         [threshold_mbps |-> "123.4", interval_seconds |-> "15"],
         FileMissing, FALSE),
     Run(NoSource, [webhook_url |-> "", interface |-> ""], ConfigYAML, FALSE),
     Run(NoSource,
         [threshold_mbps |-> "0x4641461fp-30", interval_seconds |-> "601",
          webhook_url |-> "env.hook"],
         FileMissing, FALSE),
     Run(NoSource,
         [threshold_mbps |-> "0.0000000001", metrics_enabled |-> "false"],
         ConfigYAML, FALSE),
     Run(NoSource, [threshold_mbps |-> "NaN"], FileMissing, FALSE),
     Run(NoSource,
         [interval_seconds |-> "3000000000", top_n |-> "2147483648",
          threshold_mbps |-> "1e10"],
         FileParsed([interface |-> IntValue(Int64(7)),
                     webhook_url |-> FloatValue(Float64Quo(Float64(Int64(3)),
                                                    Float64(Int64(2)))),
                     metrics_enabled |-> IntValue(Int64(1)),
                     metrics_port |-> IntValue(Int64(9091))]),
         FALSE),
     Run([interval_seconds |-> IntValue(Int64(0))], NoSource, FileMissing, FALSE),
     Run([top_n |-> IntValue(Int64(0 - 1)), webhook_url |-> StringValue("")],
         NoSource, ConfigYAML, FALSE),
     Run(NoSource, [threshold_mbps |-> "0"], FileMissing, FALSE),
     Run(NoSource, [threshold_mbps |-> "-50.5"], FileMissing, FALSE),
     Run(NoSource, [threshold_mbps |-> "1e-400"], FileMissing, FALSE),
     Run(NoSource, [top_n |-> "abc"], FileMissing, FALSE),
     Run(NoSource, [top_n |-> "9223372036854775808"], FileMissing, FALSE),
     Run(NoSource, NoSource, FileParsed([top_n |-> StringValue("abc")]), FALSE),
     Run(NoSource, NoSource,
         FileParsed([top_n |-> IntValue(Int64(0)),
                     threshold_mbps |-> FloatValue(Float64(Int64(50)))]),
         FALSE),
     Run(NoSource, NoSource,
         FileParsed([top_n |-> FloatValue(Float64Quo(Float64(Int64(1)),
                                              Float64(Int64(2)))),
                     interval_seconds |-> Null]),
         FALSE),
     Run(NoSource, NoSource,
         FileParsed([top_n |-> FloatValue(ParseFloat("1e30").v)]), FALSE),
     Run(NoSource, NoSource, FileParsed([metrics_enabled |-> Slice]), FALSE),
     Run(NoSource, NoSource, FileParsed([metrics_port |-> Slice]), FALSE),
     Run(NoSource, NoSource, FileParsed([configfile |-> Slice]), FALSE),
     Run(NoSource, [configfile |-> "env.yaml"],
         FileParsed([configfile |-> IntValue(Int64(7)),
                     top_n |-> IntValue(Int64(3))]),
         TRUE),
     Run(NoSource, [configfile |-> "env.yaml"], FileMissing, FALSE),
     Run(NoSource, NoSource, FileParsed([configfile |-> Null]), TRUE)}

\* the architectures the program is built for, which convert a float64
\* beyond int64 to an int differently
Archs == {"amd64", "arm64"}

Decoded(v) == [ok |-> TRUE, v |-> v]
DecodeError == [ok |-> FALSE, v |-> 0]

\* An NM_ variable counts only when it is set to a non-empty value
\* (viper.AutomaticEnv without AllowEmptyEnv).
EnvSet(env, k) == k \in DOMAIN env /\ env[k] # ""

\* a key the config file read holds with a value that is not null
FileSet(file, k) ==
    /\ file.state = "parsed"
    /\ k \in DOMAIN file.content
    /\ file.content[k].kind # "null"

\* viper.ReadInConfig(): the errors it can return.  Only the search of the
\* config paths is known to report ConfigFileNotFoundError.  For an explicit
\* path (SetConfigFile) that does not exist the error is the one of the
\* viper release the program is built with: the file system's path error
\* of the read, or ConfigFileNotFoundError.
ReadInConfig(explicit, file) ==
    CASE file.state = "missing" /\ explicit  ->
             {"PathError", "ConfigFileNotFoundError"}
      [] file.state = "missing" /\ ~explicit -> {"ConfigFileNotFoundError"}
      [] file.state = "unparsable"           -> {"ConfigParseError"}
      [] OTHER                               -> {"nil"}

\* cast.ToInt and cast.ToBool of a string: the zero value when it does not
\* parse
ValueOrZero(r) == IF r.err = "nil" THEN r.v ELSE Int64(0)
CastToInt(s) == ValueOrZero(ParseInt(s))
CastToBool(s) == LET r == ParseBool(s) IN r.err = "nil" /\ r.v

\* the value viper takes from a changed flag: cast.ToInt of its string for
\* an int flag, cast.ToBool for a bool flag, and the string itself
\* otherwise, which for a float64 flag is FormatFloat(f, 'g', -1, 64)
FlagValue(x) ==
    CASE x.kind = "int"   -> IntValue(CastToInt(FormatInt(x.i)))
      [] x.kind = "bool"  ->
             BoolValue(CastToBool(IF x.b THEN "true" ELSE "false"))
      [] x.kind = "float" -> StringValue(FormatFloat(x.f, "g"))
      [] OTHER            -> x

\* viper's lookup of one key with the environment above the flags.
FindEnvFirst(k, flags, env, file) ==
    IF EnvSet(env, k) THEN [src |-> "env", v |-> StringValue(env[k])]
    ELSE IF k \in DOMAIN flags THEN [src |-> "flag", v |-> FlagValue(flags[k])]
    ELSE IF FileSet(file, k) THEN [src |-> "file", v |-> file.content[k]]
    ELSE IF k \in DOMAIN Defaults THEN [src |-> "default", v |-> Defaults[k]]
    ELSE [src |-> "none", v |-> Null]

\* viper's lookup of one key: a changed flag, else the environment, else the
\* config file read, else the default, else nil.
Find(k, flags, env, file) ==
    IF k \in DOMAIN flags THEN [src |-> "flag", v |-> FlagValue(flags[k])]
    ELSE IF EnvSet(env, k) THEN [src |-> "env", v |-> StringValue(env[k])]
    ELSE IF FileSet(file, k) THEN [src |-> "file", v |-> file.content[k]]
    ELSE IF k \in DOMAIN Defaults THEN [src |-> "default", v |-> Defaults[k]]
    ELSE [src |-> "none", v |-> Null]

\* 2^63 - 1 and -2^63
MaxInt64 == [neg |-> FALSE, mag |-> NatSub(Shl(<< 1 >>, 63), << 1 >>)]
MinInt64 == [neg |-> TRUE, mag |-> Shl(<< 1 >>, 63)]

\* int64(x) for a float64 x: x without its fraction.  For NaN and for a
\* value beyond int64 the result is that of the processor: amd64 gives
\* -2^63, arm64 gives 0 for NaN and else the nearest int64.
Int64OfFloat(x, arch) ==
    LET t == IF x.exp >= 0 THEN Shl(x.mant, x.exp) ELSE Shr(x.mant, 0 - x.exp)
    IN  IF ~x.nan /\ ~x.inf /\ BitLen(x.mant) + x.exp <= 63
        THEN [neg |-> x.neg /\ t # << >>, mag |-> t]
        ELSE IF ~x.nan /\ ~x.inf /\ x.neg /\ x.mant = << 1 >> /\ x.exp = 63
        THEN MinInt64
        ELSE IF arch = "amd64" THEN MinInt64
        ELSE IF x.nan THEN Int64(0)
        ELSE IF x.neg THEN MinInt64
        ELSE MaxInt64

\* the result of strconv as the result of a decoding
Converted(r) == IF r.err = "nil" THEN Decoded(r.v) ELSE DecodeError

\* mapstructure's decodeString, decodeInt, decodeFloat and decodeBool with
\* WeaklyTypedInput: the value by its kind, the empty string as "0" or
\* false
DecodeString(x) ==
    CASE x.kind = "string" -> Decoded(x.s)
      [] x.kind = "bool"   -> Decoded(IF x.b THEN "1" ELSE "0")
      [] x.kind = "int"    -> Decoded(FormatInt(x.i))
      [] x.kind = "float"  -> Decoded(FormatFloat(x.f, "f"))
      [] OTHER             -> DecodeError

DecodeInt(x, arch) ==
    CASE x.kind = "int"    -> Decoded(x.i)
      [] x.kind = "float"  -> Decoded(Int64OfFloat(x.f, arch))
      [] x.kind = "bool"   -> Decoded(Int64(IF x.b THEN 1 ELSE 0))
      [] x.kind = "string" ->
             Converted(ParseInt(IF x.s = "" THEN "0" ELSE x.s))
      [] OTHER             -> DecodeError

DecodeFloat(x) ==
    CASE x.kind = "int"    -> Decoded(Float64(x.i))
      [] x.kind = "float"  -> Decoded(x.f)
      [] x.kind = "bool"   -> Decoded(Float64(Int64(IF x.b THEN 1 ELSE 0)))
      [] x.kind = "string" ->
             Converted(ParseFloat(IF x.s = "" THEN "0" ELSE x.s))
      [] OTHER             -> DecodeError

DecodeBool(x) ==
    CASE x.kind = "bool"   -> Decoded(x.b)
      [] x.kind = "int"    -> Decoded(x.i # Int64(0))
      [] x.kind = "float"  -> Decoded(x.f.nan \/ x.f.inf \/ x.f.mant # << >>)
      [] x.kind = "string" ->
             IF x.s = "" THEN Decoded(FALSE) ELSE Converted(ParseBool(x.s))
      [] OTHER             -> DecodeError

\* viper.Unmarshal's decoding of one found value into the field of key k
Decode(k, found, arch) ==
    CASE k \in IntKeys   -> DecodeInt(found.v, arch)
      [] k \in FloatKeys -> DecodeFloat(found.v)
      [] k \in BoolKeys  -> DecodeBool(found.v)
      [] OTHER           -> DecodeString(found.v)

\* viper.AllKeys: the keys with a default (which are those of the flags
\* but for --config) and the keys of the config file read
Listed(k, file) ==
    \/ k \in DOMAIN Defaults
    \/ file.state = "parsed" /\ k \in DOMAIN file.content

\* viper.AllSettings, which viper.Unmarshal decodes: the value found for a
\* key that is listed, nil values left out
Setting(k, flags, env, file) ==
    IF Listed(k, file) THEN Find(k, flags, env, file)
    ELSE [src |-> "none", v |-> Null]

\* viper.Unmarshal's decoding into cfg.ConfigFile: the setting of its key
\* as a string, and without one the field keeps what pflag stored
DecodeConfigFile(found, explicit) ==
    IF found.v.kind = "null" THEN Decoded(ConfigFlag(explicit))
    ELSE DecodeString(found.v)

NilConfig == [nil |-> TRUE]
Failure(msg) == [cfg |-> NilConfig, err |-> msg]
Success(c) == [cfg |-> c, err |-> "nil"]

\* The checks that end LoadConfig, in the order of the code.
Validate(c) ==
    IF Int64LE0(c.IntervalSeconds)
    THEN Failure("interval_seconds must be positive")
    ELSE IF Int64LE0(c.TopN) THEN Failure("top_n must be positive")
    ELSE IF LessOrEqual(c.ThresholdMbps, Zero(FALSE))
         THEN Failure("threshold_mbps must be positive")
    ELSE Success(c)

\* What LoadConfig returns for the given sources when ReadInConfig returns
\* rerr in a program built for arch; explicit is cfg.ConfigFile # "".
Unmarshal(dec) ==
    IF \E k \in DOMAIN dec : ~dec[k].ok
    THEN Failure("failed to unmarshal config")
    ELSE Validate([InterfaceName   |-> dec["interface"].v,
                   ThresholdMbps   |-> dec["threshold_mbps"].v,
                   WebhookURL      |-> dec["webhook_url"].v,
                   IntervalSeconds |-> dec["interval_seconds"].v,
                   TopN            |-> dec["top_n"].v,
                   MetricsEnabled  |-> dec["metrics_enabled"].v,
                   MetricsPort     |-> dec["metrics_port"].v,
                   ConfigFile      |-> dec[FieldKey].v])

LoadConfigResult(flags, env, explicit, file, rerr, arch) ==
    IF rerr = "ConfigFileNotFoundError" /\ explicit
    THEN Failure("config file specified but not found")
    ELSE IF rerr \notin {"nil", "ConfigFileNotFoundError"}
    THEN Failure("failed to read config file")
    ELSE Unmarshal([k \in Keys \cup {FieldKey} |->
                       IF k = FieldKey
                       THEN DecodeConfigFile(Setting(k, flags, env, file),
                                             explicit)
                       ELSE Decode(k, Find(k, flags, env, file), arch)])

\* LoadConfigResult of every run, for the errors ReadInConfig can return
\* in it and the builds, computed once
Loads ==
    [run \in Runs |->
        [rerr \in ReadInConfig(run.explicit, run.file) |->
            [arch \in Archs |->
                LoadConfigResult(run.flags, run.env, run.explicit, run.file,
                                 rerr, arch)]]]

\* what the call leaves: the return, and the record of the call
Returns(run, rerr, arch, ret) ==
    /\ cfg' = [status |-> "loaded", ret |-> ret]
    /\ call' = [fn       |-> "LoadConfig",
                flags    |-> run.flags,
                env      |-> run.env,
                file     |-> run.file,
                explicit |-> run.explicit,
                rerr     |-> rerr,
                arch     |-> arch,
                ret      |-> ret]

\* main's call of config.LoadConfig(), once per run of the program.
LoadConfig ==
    /\ cfg.status = "none"
    /\ \E run \in Runs, arch \in Archs :
          \E rerr \in ReadInConfig(run.explicit, run.file) :
            Returns(run, rerr, arch, Loads[run][rerr][arch])
    /\ UNCHANGED << progVars, monVars, calls, cells, liveMap, sentMaps,
                    sentVals >>

(***************************************************************************)
(* The monitor's work on one window: Monitor.processIntervalData and       *)
(* Monitor.notifyThresholdExceeded (internal/monitor), the collectors of   *)
(* internal/metrics and discord.SendDiscordNotification.  Every call of a  *)
(* collector is a step of its own: the collectors are read by the          *)
(* /metrics handler and the deliveries run beside the monitor.             *)
(***************************************************************************)

\* (c *Config) GetIntervalDuration(): an int64 product, which wraps
GetIntervalDuration(c) == Int64Mul(c.IntervalSeconds, Second)

\* the snapshot {A:500, B:1500, C:1000} in thousands of bytes
ExampleWindow ==
    [ip \in {"A", "B", "C"} |->
        CASE ip = "A" -> 500000 [] ip = "B" -> 1500000 [] ip = "C" -> 1000000]

\* The window snapshots the monitor is given: 125,000 bytes are 1 Mbit;
\* 82,467,267 bytes over 601 s are rated at 1178682911 / 2^30 Mbps.
Windows ==
    {EmptyMap,
     ExampleWindow,
     [ip \in {"A"} |-> 125000],
     [ip \in {"A"} |-> 125001],
     [ip \in {"A", "B"} |-> 1000000],
     [ip \in {"A"} |-> 82467267]}

\* the maps aggregatePacket leaves after at most n frames of FeedPackets
RECURSIVE Accumulated(_)
Accumulated(n) ==
    IF n = 0 THEN {EmptyMap}
    ELSE Accumulated(n - 1) \cup
         { AddBytes(m, SrcIP(p), PacketSize(p)) :
             m \in Accumulated(n - 1),
             p \in { q \in FeedPackets : ~Discarded(q) } }

\* the map aggregatePacket leaves after the frames given
RECURSIVE Aggregated(_)
Aggregated(frames) ==
    IF frames = << >> THEN EmptyMap
    ELSE IF Discarded(Head(frames)) THEN Aggregated(Tail(frames))
    ELSE AddBytes(Aggregated(Tail(frames)), SrcIP(Head(frames)),
                  PacketSize(Head(frames)))

\* The window snapshots the aggregator can send to Monitor.Run: what it
\* accumulates of the frames of a source between two swaps.
Snapshots ==
    Accumulated(MaxInputs) \cup
    { Aggregated(SubSeq(ExampleFeed, i, j)) :
        i \in 1 .. Len(ExampleFeed) + 1, j \in 0 .. Len(ExampleFeed) }

\* processIntervalData up to its log line: the interval, the bytes of the
\* window and the speeds of the addresses and of the window, each by a call
\* of CalculateSpeedMbps
RatesOver(window, interval, overallBytes) ==
    [interval         |-> interval,
     overallBytes     |-> overallBytes,
     ipSpeeds         |->
         [ip \in DOMAIN window |->
             CalculateSpeedMbps(Int64(window[ip]), interval)],
     overallSpeedMbps |-> CalculateSpeedMbps(overallBytes, interval)]

\* interval := m.cfg.GetIntervalDuration() and overallBytes, the sum of
\* the range over intervalData
IntervalRates(c, window) ==
    RatesOver(window, GetIntervalDuration(c), Int64(TotalBytes(window)))

\* the values of a function
Range(f) == { f[x] : x \in DOMAIN f }

\* the configurations LoadConfig returns in the runs
Configs ==
    { ret.cfg : ret \in
        { r \in UNION { UNION { Range(byArch) : byArch \in Range(byErr) } :
                          byErr \in Range(Loads) } :
            r.err = "nil" } }

\* what LoadConfig returns to main in a run without flags, NM_ variables
\* or config file: the defaults
MainConfig ==
    Loads[Run(NoSource, NoSource, FileMissing, FALSE)]
         ["ConfigFileNotFoundError"]["amd64"]

\* IntervalRates for those configurations and for the windows and the
\* snapshots of the aggregator, computed once
Rates ==
    [c \in Configs, window \in Windows \cup Snapshots |->
        IntervalRates(c, window)]

\* less(i, j) of sort.Slice: Speed[i] > Speed[j]
Faster(a, b) == Greater(a, b)

\* overallSpeedMbps >= m.cfg.ThresholdMbps
ExceedsOrEqual(speed, threshold) ==
    ~speed.nan /\ ~threshold.nan /\ ~Float64Above(threshold, speed)

\* overallSpeedMbps > m.cfg.ThresholdMbps; false when the threshold is NaN
Exceeds(speed, threshold) == Greater(speed, threshold)

\* the orders in which the entries of a map can be met
Orderings(S) ==
    { s \in [1 .. Cardinality(S) -> S] :
        \A i, j \in 1 .. Cardinality(S) : i # j => s[i] # s[j] }

\* a sort that leaves the slowest first
SortSliceAscending(m) ==
    { s \in Orderings(DOMAIN m) :
        \A i, j \in 1 .. Len(s) : i < j => ~Faster(m[s[i]], m[s[j]]) }

\* The slices sort.Slice can leave with less(i, j) == Speed[i] > Speed[j],
\* filled from a range over the map m: no entry is faster than one before
\* it; the order of equal speeds is not determined.
SortSlice(m) ==
    { s \in Orderings(DOMAIN m) :
        \A i, j \in 1 .. Len(s) : i < j => ~Faster(m[s[j]], m[s[i]]) }

\* topN := m.cfg.TopN; if len(sortedTalkers) < topN { topN = len(...) }
CutOff(sortedTalkers, topN) ==
    IF Int64Less(Int64(Len(sortedTalkers)), topN) THEN Len(sortedTalkers)
    ELSE CHOOSE n \in 0 .. Len(sortedTalkers) : Int64(n) = topN

\* totalSpeed after the first n talkers: totalSpeed += talker.Speed
RECURSIVE TotalSpeed(_, _, _)
TotalSpeed(topTalkers, sortedTalkers, n) ==
    IF n = 0 THEN Zero(FALSE)
    ELSE Float64Add(TotalSpeed(topTalkers, sortedTalkers, n - 1),
                    topTalkers[sortedTalkers[n]])

\* sortedTalkers[:topN] of notifyThresholdExceeded
TopTalkers(sortedTalkers, n) == SubSeq(sortedTalkers, 1, n)

\* topTalkersMap of notifyThresholdExceeded
TopTalkersMap(top, ipSpeeds) ==
    [ip \in { top[i] : i \in 1 .. Len(top) } |-> ipSpeeds[ip]]

NoPost == [posted |-> FALSE]

\* discord.SendDiscordNotification: the embeds it can post; none when the
\* URL is empty
SendDiscordNotification(webhookURL, topTalkers, thresholdMbps, intervalSeconds) ==
    IF webhookURL = "" THEN {NoPost}
    ELSE { [posted          |-> TRUE,
            webhookURL      |-> webhookURL,
            thresholdMbps   |-> thresholdMbps,
            intervalSeconds |-> intervalSeconds,
            fields          |-> sortedTalkers,
            totalSpeed      |-> TotalSpeed(topTalkers, sortedTalkers,
                                           Len(sortedTalkers))] :
           sortedTalkers \in SortSlice(topTalkers) }

NoNotification == [sent |-> FALSE]

\* the goroutine of notifyThresholdExceeded: the call of
\* SendDiscordNotification with topTalkersMap
Handed(webhookURL, c, ranking, topTalkersMap) ==
    { [sent       |-> TRUE,
       ranking    |-> ranking,
       topTalkers |-> topTalkersMap,
       post       |-> p] :
      p \in SendDiscordNotification(webhookURL, topTalkersMap,
                                    c.ThresholdMbps, c.IntervalSeconds) }

\* the first topN of the sorted slice
Ranked(webhookURL, c, ranking, ipSpeeds) ==
    Handed(webhookURL, c, ranking, TopTalkersMap(ranking, ipSpeeds))

\* the calls of the notifier notifyThresholdExceeded can make once the
\* slice is sorted
Notify(webhookURL, c, ipSpeeds) ==
    UNION { Ranked(webhookURL, c,
                   TopTalkers(sortedTalkers, CutOff(sortedTalkers, c.TopN)),
                   ipSpeeds) :
            sortedTalkers \in SortSlice(ipSpeeds) }

\* notifyThresholdExceeded without the check of the webhook URL
NotifyThresholdExceededAnyURL(c, ipSpeeds) ==
    Notify(c.WebhookURL, c, ipSpeeds)

\* Monitor.notifyThresholdExceeded: what it hands to the notifier; nothing
\* when the webhook URL is empty
NotifyThresholdExceeded(c, ipSpeeds) ==
    IF c.WebhookURL = "" THEN {NoNotification}
    ELSE Notify(c.WebhookURL, c, ipSpeeds)

\* what processIntervalData has passed to the collectors so far
NoMetrics ==
    [updated |-> FALSE, speed |-> NoSpeed, traffic |-> Int64(0),
     topTalkers |-> EmptyMap, thresholdExceeded |-> FALSE]

\* overallSpeedMbps > m.cfg.ThresholdMbps for each configuration and window
\* of rates
AlertsOf(rates) ==
    [k \in DOMAIN rates |->
        Exceeds(rates[k].overallSpeedMbps, k[1].ThresholdMbps)]

\* the checks of the threshold for those configurations and windows,
\* computed once
Alerts == AlertsOf(Rates)

\* what notifyThresholdExceeded can hand to the notifier for each
\* configuration and window of rates
NotificationsOf(rates) ==
    [k \in DOMAIN rates |-> NotifyThresholdExceeded(k[1], rates[k].ipSpeeds)]

\* the calls of notifyThresholdExceeded for those configurations and
\* windows, computed once
Notifications == NotificationsOf(Rates)

\* metrics.UpdateNetworkSpeed: Set on the gauge
UpdateNetworkSpeed(g, speedMbps) == [g EXCEPT !.speed = speedMbps]

\* float64(bytes) of metrics.UpdateNetworkTraffic as the whole number it
\* is; the bytes of a window are not negative
Whole(v) == Shl(v.mant, v.exp)

CounterValue(bytes) == Whole(Float64(bytes))

\* float64(overallBytes) for the windows, computed once
CounterValues ==
    [window \in Windows \cup Snapshots |->
        CounterValue(Int64(TotalBytes(window)))]

\* a traffic collector that is set to the bytes of the window
UpdateNetworkTrafficSet(g, v) == [g EXCEPT !.traffic = v]

\* metrics.UpdateNetworkTraffic: Add(v) on the counter, which adds a
\* float64 that is a whole number to its uint64 part; the sum n is taken
\* once
UpdateNetworkTraffic(g, v) ==
    [g EXCEPT !.traffic =
        CHOOSE sum \in {LowBits(n, 64) : n \in {NatAdd(@, v)}} : TRUE]

\* metrics.UpdateTopTalkers: topTalkers.Reset()
ResetTopTalkers(g) == [g EXCEPT !.topTalkers = EmptyMap]

\* metrics.UpdateTopTalkers: topTalkers.WithLabelValues(interfaceName, ip),
\* which registers the series of the address, a gauge at 0
WithTopTalker(g, ip) == [g EXCEPT !.topTalkers = Put(@, ip, NoSpeed)]

\* metrics.UpdateTopTalkers: Set(speed) on that series
SetTopTalker(g, ip, speed) == [g EXCEPT !.topTalkers = Put(@, ip, speed)]

\* metrics.UpdateThresholdStatus
UpdateThresholdStatus(g, exceeded) ==
    [g EXCEPT !.thresholdExceeded = IF exceeded THEN 1 ELSE 0]

\* the call of processIntervalData before its first collector
Received(window, r) ==
    [fn               |-> "processIntervalData",
     intervalData     |-> window,
     interval         |-> r.interval,
     overallBytes     |-> r.overallBytes,
     ipSpeeds         |-> r.ipSpeeds,
     overallSpeedMbps |-> r.overallSpeedMbps,
     metrics          |-> NoMetrics,
     talker           |-> NilIP,
     alert            |-> FALSE,
     notification     |-> NoNotification]

\* m.processIntervalData(window) up to the check of m.cfg.MetricsEnabled:
\* it computes the rates of the window
Begun(window) ==
    /\ Alive
    /\ cfg.status = "loaded"
    /\ cfg.ret.err = "nil"
    /\ monPc = "idle"
    /\ call' = Received(window, Rates[cfg.ret.cfg, window])
    /\ monPc' = IF cfg.ret.cfg.MetricsEnabled THEN "speed" ELSE "check"
    /\ UNCHANGED << progVars, calls, cells, liveMap, sentMaps, sentVals, cfg,
                    gauges, deliveries, processed >>

\* the sequential view: Monitor.Run is given one of Windows and calls
\* processIntervalData
ReceiveWindow ==
    /\ processed.n < MaxWindows
    /\ \E window \in Windows : Begun(window)

\* Monitor.Run, after its receive from a.resultsChan:
\* m.processIntervalData(intervalData)
ConsProcess ==
    /\ consPc = "process"
    /\ Begun(consData.data)

\* metrics.UpdateNetworkSpeed(m.interfaceName, overallSpeedMbps)
SetNetworkSpeed ==
    /\ Alive
    /\ monPc = "speed"
    /\ gauges' = UpdateNetworkSpeed(gauges, call.overallSpeedMbps)
    /\ call' = [call EXCEPT !.metrics.speed = call.overallSpeedMbps]
    /\ monPc' = "traffic"
    /\ UNCHANGED << progVars, calls, cells, liveMap, sentMaps, sentVals, cfg,
                    deliveries, processed >>

\* metrics.UpdateNetworkTraffic(m.interfaceName, overallBytes)
AddNetworkTraffic ==
    /\ Alive
    /\ monPc = "traffic"
    /\ gauges' = UpdateNetworkTraffic(gauges,
                                      CounterValues[call.intervalData])
    /\ call' = [call EXCEPT !.metrics.traffic = call.overallBytes]
    /\ monPc' = "reset"
    /\ UNCHANGED << progVars, calls, cells, liveMap, sentMaps, sentVals, cfg,
                    deliveries, processed >>

\* metrics.UpdateTopTalkers(m.interfaceName, ipSpeeds): the Reset
ResetTopTalkerSeries ==
    /\ Alive
    /\ monPc = "reset"
    /\ gauges' = ResetTopTalkers(gauges)
    /\ call' = [call EXCEPT !.metrics.topTalkers = call.ipSpeeds]
    /\ monPc' = "talkers"
    /\ UNCHANGED << progVars, calls, cells, liveMap, sentMaps, sentVals, cfg,
                    deliveries, processed >>

\* metrics.UpdateTopTalkers: the range over ipSpeeds reaches an address, in
\* the order the map gives, and WithLabelValues registers its series
CreateTopTalkerSeries ==
    /\ Alive
    /\ monPc = "talkers"
    /\ \E ip \in DOMAIN call.ipSpeeds \ DOMAIN gauges.topTalkers :
         /\ gauges' = WithTopTalker(gauges, ip)
         /\ call' = [call EXCEPT !.talker = ip]
    /\ monPc' = "set"
    /\ UNCHANGED << progVars, calls, cells, liveMap, sentMaps, sentVals, cfg,
                    deliveries, processed >>

\* metrics.UpdateTopTalkers: the Set(speed) on the series just registered
SetTopTalkerSeries ==
    /\ Alive
    /\ monPc = "set"
    /\ gauges' = SetTopTalker(gauges, call.talker, call.ipSpeeds[call.talker])
    /\ monPc' = "talkers"
    /\ UNCHANGED << progVars, calls, call, cells, liveMap, sentMaps, sentVals,
                    cfg, deliveries, processed >>

\* the collector and the record of the call after UpdateThresholdStatus
StatusSet(thresholdExceeded) ==
    /\ gauges' = UpdateThresholdStatus(gauges, thresholdExceeded)
    /\ call' = [call EXCEPT !.metrics.thresholdExceeded = thresholdExceeded,
                            !.metrics.updated = TRUE]

\* thresholdExceeded := overallSpeedMbps > m.cfg.ThresholdMbps and
\* metrics.UpdateThresholdStatus(thresholdExceeded), once the range is over
SetThresholdStatus ==
    /\ Alive
    /\ monPc = "talkers"
    /\ DOMAIN gauges.topTalkers = DOMAIN call.ipSpeeds
    /\ StatusSet(Alerts[cfg.ret.cfg, call.intervalData])
    /\ monPc' = "check"
    /\ UNCHANGED << progVars, calls, cells, liveMap, sentMaps, sentVals, cfg,
                    deliveries, processed >>

\* the outcome of the check of the threshold: with an alert, a call of
\* notifyThresholdExceeded and, when it hands something to the notifier,
\* the goroutine of the delivery
Checked(alert) ==
    \E n \in (IF alert THEN Notifications[cfg.ret.cfg, call.intervalData]
              ELSE {NoNotification}) :
        /\ call' = [call EXCEPT !.alert = alert, !.notification = n]
        /\ deliveries' = IF n.sent
                         THEN Append(deliveries,
                                     [window |-> processed.n + 1,
                                      state  |-> "running"])
                         ELSE deliveries

\* processIntervalData returns: when it was called by the loop of
\* Monitor.Run, the loop is back at its select
Returned ==
    IF consPc = "process"
    THEN /\ received' = Append(received, consData)
         /\ consData' = NoMsg
         /\ consPc' = "select"
    ELSE UNCHANGED consVars

\* if overallSpeedMbps > m.cfg.ThresholdMbps, notifyThresholdExceeded, which
\* starts the goroutine of the delivery unless the webhook URL is empty;
\* processIntervalData returns
CheckThreshold ==
    /\ Alive
    /\ monPc = "check"
    /\ Checked(Alerts[cfg.ret.cfg, call.intervalData])
    /\ processed' = [n     |-> processed.n + 1,
                     bytes |-> processed.bytes + TotalBytes(call.intervalData)]
    /\ monPc' = "idle"
    /\ Returned
    /\ UNCHANGED << engineVars, calls, cells, liveMap, sentMaps, sentVals, cfg,
                    gauges >>

\* Monitor.processIntervalData for one window received by Monitor.Run: its
\* steps
ProcessIntervalData ==
    \/ ReceiveWindow
    \/ SetNetworkSpeed
    \/ AddNetworkTraffic
    \/ ResetTopTalkerSeries
    \/ CreateTopTalkerSeries
    \/ SetTopTalkerSeries
    \/ SetThresholdStatus
    \/ CheckThreshold

\* a goroutine that answers an error of SendDiscordNotification by starting
\* the delivery again
DeliveryFailedRetried ==
    /\ \E i \in 1 .. Len(deliveries) :
         /\ deliveries[i].state = "running"
         /\ deliveries' =
               Append([deliveries EXCEPT ![i].state = "failed"],
                      [window |-> deliveries[i].window, state |-> "running"])
    /\ UNCHANGED << progVars, calls, call, cells, liveMap, sentMaps, sentVals,
                    cfg, gauges, processed, monPc >>

\* a goroutine of notifyThresholdExceeded whose SendDiscordNotification
\* returns an error, which it logs, and then ends
DeliveryFailed ==
    /\ \E i \in 1 .. Len(deliveries) :
         /\ deliveries[i].state = "running"
         /\ deliveries' = [deliveries EXCEPT ![i].state = "failed"]
    /\ UNCHANGED << progVars, calls, call, cells, liveMap, sentMaps, sentVals,
                    cfg, gauges, processed, monPc >>

\* a goroutine of notifyThresholdExceeded whose SendDiscordNotification
\* returns nil
DeliveryPosted ==
    /\ \E i \in 1 .. Len(deliveries) :
         /\ deliveries[i].state = "running"
         /\ deliveries' = [deliveries EXCEPT ![i].state = "posted"]
    /\ UNCHANGED << progVars, calls, call, cells, liveMap, sentMaps, sentVals,
                    cfg, gauges, processed, monPc >>

(* Monitor.Run *)

\* go m.Run(): the loop reaches its select
ConsStart ==
    /\ Alive
    /\ consPc = "start"
    /\ consPc' = "select"
    /\ UNCHANGED << unitVars, aggVars, ingestVars, runVars, callerVars, histVars,
                    stopClosed, feedClosed, consData, received, panicked, fires >>

\* a receive from the closed channel taken for a window and processed
ConsClosedAsWindow ==
    /\ Alive
    /\ consPc = "select"
    /\ resultsClosed
    /\ consPc' = "process"
    /\ UNCHANGED << unitVars, aggVars, ingestVars, runVars, callerVars, histVars,
                    stopClosed, feedClosed, consData, received, panicked, fires >>

\* case intervalData, ok := <-m.resultsChan with !ok: return
ConsClosed ==
    /\ Alive
    /\ consPc = "select"
    /\ resultsClosed
    /\ consPc' = "closed"
    /\ UNCHANGED << unitVars, aggVars, ingestVars, runVars, callerVars, histVars,
                    stopClosed, feedClosed, consData, received, panicked, fires >>

\* case <-m.stopChan: return
ConsStop ==
    /\ Alive
    /\ consPc = "select"
    /\ mStopClosed
    /\ consPc' = "stopped"
    /\ UNCHANGED << unitVars, aggVars, ingestVars, runVars, callerVars, histVars,
                    stopClosed, feedClosed, consData, received, panicked, fires >>

----
(* Aggregator.Stop and Monitor.Close, called by the owner of the monitor *)

\* close(a.stopChan) of Stop: closing a closed channel panics
CloseStopChan ==
    IF stopClosed
    THEN panicked' = "Stop" /\ UNCHANGED << stopClosed, callerPc >>
    ELSE stopClosed' = TRUE /\ callerPc' = "tickerStop" /\ UNCHANGED panicked

\* a direct call of Aggregator.Stop: close(a.stopChan)
CallStop ==
    /\ Alive
    /\ ~source.scripted
    /\ callerPc = "idle"
    /\ CloseStopChan
    /\ UNCHANGED << unitVars, aggVars, ingestVars, runVars, consVars, histVars,
                    feedClosed, mStopClosed, tickerStopped, fires >>

\* a.ticker.Stop() of Stop.  What becomes of a tick that is waiting in
\* ticker.C depends on the timer implementation the program is built with:
\* with the timers of Go 1.23 and later Stop discards it, with the earlier
\* ones (or GODEBUG=asynctimerchan=1) it stays in the channel's buffer.
TickerStop ==
    /\ Alive
    /\ callerPc = "tickerStop"
    /\ tickerStopped' = TRUE
    /\ callerPc' = "idle"
    /\ tickC' \in {tickC, 0}
    /\ UNCHANGED << unitVars, aggVars, ingestVars, consVars, histVars,
                    runPc, cycle, intervalSnapshot, resultsClosed,
                    stopClosed, feedClosed, mStopClosed, panicked, fires >>

\* Monitor.Close: close(m.stopChan)
CallClose ==
    /\ Alive
    /\ ~source.scripted
    /\ callerPc = "idle"
    /\ IF mStopClosed
       THEN panicked' = "Close" /\ UNCHANGED << mStopClosed, callerPc >>
       ELSE mStopClosed' = TRUE /\ callerPc' = "closeStop" /\ UNCHANGED panicked
    /\ UNCHANGED << unitVars, aggVars, ingestVars, runVars, consVars, histVars,
                    stopClosed, feedClosed, tickerStopped, fires >>

\* Monitor.Close: m.aggregator.Stop()
CloseStop ==
    /\ Alive
    /\ callerPc = "closeStop"
    /\ CloseStopChan
    /\ UNCHANGED << unitVars, aggVars, ingestVars, runVars, consVars, histVars,
                    feedClosed, mStopClosed, tickerStopped, fires >>

----
(* Specifications *)

Next ==
    \/ TimerFire
    \/ FeedClose
    \/ IngestStop
    \/ IngestRecv
    \/ IngestExhausted
    \/ IngestLock
    \/ IngestAdd
    \/ RunTick
    \/ RunStop
    \/ RunLock
    \/ RunSwap
    \/ RunSend
    \/ RunSendDiscard
    \/ RunSendDefault
    \/ RunBlockedSend
    \/ RunReturn
    \/ ConsStart
    \/ ConsClosed
    \/ ConsStop
    \/ ConsProcess
    \/ SetNetworkSpeed
    \/ AddNetworkTraffic
    \/ ResetTopTalkerSeries
    \/ CreateTopTalkerSeries
    \/ SetTopTalkerSeries
    \/ SetThresholdStatus
    \/ CheckThreshold
    \/ CallStop
    \/ TickerStop
    \/ CallClose
    \/ CloseStop

\* the packet sources of the concurrent model
Sources == {AnySource, Scripted(ExampleFeed)}

\* main has loaded the defaults and opened one of the sources
Started ==
    \E src \in Sources :
        StartedWith([status |-> "loaded", ret |-> MainConfig], src)

Spec == Started /\ [][Next]_vars

\* the steps of the goroutines of the program; the clock, the packet
\* source and the owner's calls of Stop and Close are the environment
RunNext ==
    \/ RunTick \/ RunStop \/ RunLock \/ RunSwap \/ RunSend \/ RunSendDiscard
    \/ RunSendDefault \/ RunBlockedSend \/ RunReturn

ConsNext ==
    \/ ConsStart \/ ConsClosed \/ ConsStop \/ ConsProcess
    \/ SetNetworkSpeed \/ AddNetworkTraffic \/ ResetTopTalkerSeries
    \/ CreateTopTalkerSeries \/ SetTopTalkerSeries \/ SetThresholdStatus
    \/ CheckThreshold

\* the Go scheduler runs every goroutine that can take a step, and a call
\* of Stop or Close that has begun runs to its end
FairSpec ==
    /\ Spec
    /\ WF_vars(IngestStop \/ IngestExhausted \/ IngestLock \/ IngestAdd)
    /\ WF_vars(RunNext)
    /\ WF_vars(ConsNext)
    /\ WF_vars(TickerStop \/ CloseStop)

----
(* The sequential view of the configuration and the monitor *)

MonitorNext ==
    \/ LoadConfig
    \/ ProcessIntervalData
    \/ DeliveryFailed
    \/ DeliveryPosted

(* The configuration and the monitor's work on the windows it receives.    *)
MonitorSpec == Init /\ [][MonitorNext]_vars

----
(* History read by the properties *)

Addrs ==
    ({ SrcIP(p) : p \in FeedPackets } \cup
     { SrcIP(ExampleFeed[i]) : i \in DOMAIN ExampleFeed }) \ {NilIP}

Value(m, a) == IF a \in DOMAIN m THEN m[a] ELSE 0

RECURSIVE SumSizes(_)
SumSizes(S) ==
    IF S = {} THEN 0
    ELSE LET i == CHOOSE j \in S : TRUE
         IN adds[i].size + SumSizes(S \ {i})

\* the completed Adds of address a with an index in lo+1 .. hi
AddsIn(a, lo, hi) == { i \in 1..Len(adds) : adds[i].src = a /\ lo < i /\ i <= hi }

\* the Adds completed between swap k-1 and swap k
AddsOfWindow(k) == { i \in 1..Len(adds) : adds[i].w = k }

RECURSIVE SumSnaps(_, _)
SumSnaps(a, k) == IF k = 0 THEN 0 ELSE Value(snaps[k].data, a) + SumSnaps(a, k - 1)

RECURSIVE SumReceived(_)
SumReceived(k) ==
    IF k = 0 THEN 0 ELSE TotalBytes(received[k].data) + SumReceived(k - 1)

FinalCycles == { k \in 1..Len(snaps) : snaps[k].final }

\* markers of swap k: the Adds completed when it began, begun when it completed
Nb(k) == IF k = 0 THEN 0 ELSE snaps[k].nb
Ne(k) == IF k = 0 THEN 0 ELSE snaps[k].ne

----
(* Claims *)

\* the snapshot the specification expects of the example window
ExampleSnapshot ==
    [a \in {"10.0.0.1", "10.0.0.2"} |-> IF a = "10.0.0.1" THEN 1000 ELSE 100]

\* the Adds of window k are those of the four frames of the example
ExampleWindowAt(k) ==
    /\ source.scripted
    /\ AddsOfWindow(k) = 1 .. 4
    /\ << adds[1].size, adds[2].size, adds[3].size, adds[4].size >> =
          << 300, 200, 500, 100 >>
    /\ << adds[1].src, adds[2].src, adds[3].src, adds[4].src >> =
          << "10.0.0.1", "10.0.0.1", "10.0.0.1", "10.0.0.2" >>

\* C1: per-window conservation: the snapshot of every swap holds, for each
\* source address, exactly the sum of the sizes of the accepted packets
\* whose Add completed since the previous swap, and nothing else, and its
\* total is the sum over all those packets; packets of 300, 200 and 500
\* bytes from 10.0.0.1 and 100 bytes from 10.0.0.2 in one window give
\* {10.0.0.1: 1000, 10.0.0.2: 100} with total 1100.
C1_PerWindowConservation ==
    \A k \in 1..Len(snaps) :
        /\ DOMAIN snaps[k].data = { adds[i].src : i \in AddsOfWindow(k) }
        /\ \A a \in DOMAIN snaps[k].data :
              snaps[k].data[a] = SumSizes({ i \in AddsOfWindow(k) : adds[i].src = a })
        /\ snaps[k].total = SumSizes(AddsOfWindow(k))
        /\ ExampleWindowAt(k) =>
              (snaps[k].data = ExampleSnapshot /\ snaps[k].total = 1100)

\* the four packets of the example were added in one window and its swap
\* produced {10.0.0.1: 1000, 10.0.0.2: 100} with total 1100
C1_Witness ==
    \E k \in 1..Len(snaps) :
        /\ ExampleWindowAt(k)
        /\ snaps[k].data = ExampleSnapshot
        /\ snaps[k].total = 1100

\* C2: global conservation: once the consumer has seen the Result Channel
\* closed, the totals of the snapshots it received add up to the bytes of
\* all accepted packets ever added to the accumulator.
C2_GlobalConservation ==
    consPc = "closed" => SumReceived(Len(received)) = SumSizes(1..Len(adds))

\* C3: no double counting: for every address, the bytes found in all
\* snapshots never exceed the bytes accepted, and every accepted byte is
\* either in exactly one snapshot or still in the live map.
C3_NoDoubleCounting ==
    \A a \in Addrs :
        /\ SumSnaps(a, Len(snaps)) <= SumSizes(AddsIn(a, 0, Len(adds)))
        /\ SumSnaps(a, Len(snaps)) + Value(intervalData, a)
              = SumSizes(AddsIn(a, 0, Len(adds)))

\* an Add that ran concurrently with the first swap and landed in it, and a
\* second snapshot that does not hold its bytes again
C3_Witness ==
    /\ Len(snaps) = 2
    /\ Len(adds) = 1
    /\ adds[1].w = 1
    /\ snaps[1].nb = 0
    /\ snaps[1].data # EmptyMap
    /\ snaps[2].data = EmptyMap

\* C4: swap ordering: the snapshot of swap k holds every Add that began
\* after swap k-1 completed and completed before swap k began, and holds no
\* Add that completed before swap k-1 began or began after swap k completed.
C4_SwapOrdering ==
    \A k \in 1..Len(snaps) : \A a \in Addrs :
        /\ SumSizes(AddsIn(a, Ne(k - 1), Nb(k))) <= Value(snaps[k].data, a)
        /\ Value(snaps[k].data, a) <= SumSizes(AddsIn(a, Nb(k - 1), Ne(k)))

\* an Add in flight while the first swap ran is found in the second snapshot
C4_Witness ==
    /\ Len(snaps) = 2
    /\ Len(adds) = 1
    /\ snaps[1].nb = 0
    /\ snaps[1].ne = 1
    /\ snaps[1].data = EmptyMap
    /\ snaps[2].data # EmptyMap

\* C5: idempotent stop: a second trigger of the stop signal (Stop twice, or
\* Stop and the source exhaustion of the Ingestion Loop) never panics, and
\* there is exactly one final flush cycle.
C5_IdempotentStop ==
    /\ panicked \notin {"Stop", "processPackets"}
    /\ Cardinality(FinalCycles) <= 1
    /\ runPc = "done" => Cardinality(FinalCycles) = 1

\* C6: final flush on shutdown: a consumer that iterates the Result Channel
\* until it sees it closed has received the result of the final cycle, with
\* the data of that cycle, as its last result.
C6_FinalFlushDelivered ==
    consPc = "closed" =>
        /\ Len(received) >= 1
        /\ Len(snaps) >= 1
        /\ received[Len(received)].id = Len(snaps)
        /\ received[Len(received)].data = snaps[Len(snaps)].data
        /\ snaps[Len(snaps)].final

\* C7: shutdown cannot deadlock: after the stop signal has been triggered
\* the Window Timer Loop eventually returns with the Result Channel closed
\* (unless the process has crashed).
C7_ShutdownCannotDeadlock ==
    stopClosed ~> (resultsClosed \/ ~Alive)

\* C8 as claimed: exactly one cycle once the loop has observed the stop
\* signal, no cycle after the Result Channel is closed, and no timer-driven
\* cycle begun after the stop signal has been triggered.
C8_NoTimerCycleAfterStop ==
    /\ \A k \in 1..Len(snaps) :
          /\ snaps[k].final => k = Len(snaps)
          /\ ~snaps[k].closed
          /\ snaps[k].stopped => snaps[k].final
    /\ runPc \in {"return", "done"} => Cardinality(FinalCycles) = 1

\* C8 as amended: once the loop has observed the stop signal it performs
\* exactly one cycle, the last one, and returns; no cycle is performed after
\* the Result Channel is closed; a timer-driven cycle is never begun after
\* the loop has observed the stop signal.
C8_TimerLoopStateMachine ==
    /\ \A k \in 1..Len(snaps) :
          /\ snaps[k].final => k = Len(snaps)
          /\ ~snaps[k].closed
    /\ Cardinality(FinalCycles) <= 1
    /\ (cycle.final /\ runPc \in {"send", "blocked"}) => Cardinality(FinalCycles) = 1
    /\ runPc \in {"return", "done"} => Cardinality(FinalCycles) = 1
    /\ resultsClosed => runPc = "done"

\* the loop has returned after a timer-driven cycle and the final cycle
C8_Witness ==
    /\ runPc = "done"
    /\ Len(snaps) = 2
    /\ ~snaps[1].final
    /\ snaps[2].final

\* C9: the Result Channel is closed at most once, only when the Window
\* Timer Loop has finished its final cycle, and no send is attempted on it
\* once it is closed.
C9_ResultChannelClosedOnce ==
    /\ closes <= 1
    /\ resultsClosed <=> closes = 1
    /\ panicked \notin {"processInterval", "run"}
    /\ resultsClosed =>
          /\ runPc = "done"
          /\ intervalSnapshot = NoMsg
          /\ Len(snaps) >= 1
          /\ snaps[Len(snaps)].final
          /\ Len(received) + Len(discards) + (IF consPc = "process" THEN 1 ELSE 0)
                = Len(snaps)

\* the channel has been closed after a final cycle whose result was taken
C9_Witness ==
    /\ resultsClosed
    /\ Len(received) >= 1
    /\ received[Len(received)].id = Len(snaps)

\* C10: source exhaustion is a clean termination: when the Ingestion Loop
\* takes the closed feed it triggers the stop signal and returns, and its
\* trigger of the stop signal never panics.
C10_ExhaustionIsClean ==
    /\ panicked # "processPackets"
    /\ ingestPc = "exhausted" => stopClosed

\* C11: once the stop signal has been triggered the Ingestion Loop performs
\* no Add for a packet it took from the packet source after the trigger.
C11_NoAddAfterStop ==
    [][adds' # adds => ~cur.late]_vars

\* C12: an Add and a SwapAndReset are never inside their critical sections
\* at the same time, the mutex is held exactly by the goroutine that is
\* inside its critical section, and the live map is read or written only by
\* a goroutine inside its critical section.
C12_MutualExclusion ==
    /\ [](/\ ~(ingestPc = "locked" /\ runPc = "locked")
          /\ mu = "ingest" <=> ingestPc = "locked"
          /\ mu = "run" <=> runPc = "locked")
    /\ [][\/ intervalData' = intervalData
          \/ ingestPc = "locked" /\ mu = "ingest" /\ runPc # "locked"
          \/ runPc = "locked" /\ mu = "run" /\ ingestPc # "locked"]_vars

\* an Add is inside its critical section while a window cycle waits for the
\* lock, the live map holding bytes
C12_Witness ==
    /\ ingestPc = "locked"
    /\ runPc = "lock"
    /\ mu = "ingest"
    /\ intervalData # EmptyMap

\* C13: while the stop signal has not been triggered no result is discarded:
\* every snapshot produced so far has been taken by the consumer or is still
\* held by the Window Timer Loop in its send, and a loop blocked in the send
\* holds the result of its latest swap.
C13_NoDropBeforeStop ==
    /\ discards # << >> => stopClosed
    /\ ~stopClosed =>
          Len(received) + (IF consPc = "process" THEN 1 ELSE 0)
             + (IF runPc \in {"send", "blocked"} THEN 1 ELSE 0) = Len(snaps)
    /\ runPc \in {"send", "blocked"} => intervalSnapshot.id = Len(snaps)

\* no consumer is ready for the second result (it is busy with the first)
\* and the loop is blocked in the plain send, the stop signal not triggered
C13_Witness ==
    /\ ~stopClosed
    /\ runPc = "blocked"
    /\ consPc = "process"
    /\ Len(snaps) = 2

\* the results Monitor.Run has taken, the one it is processing included
Taken == IF consPc = "process" THEN Append(received, consData) ELSE received

\* C14: every snapshot is handed to the consumer at most once, and the
\* consumer takes the snapshots in the order of their swaps: the ids of the
\* results taken are strictly increasing, each result is the snapshot its
\* swap produced, and no discarded result is also taken.
C14_OncePerWindowInOrder ==
    /\ \A i \in 1..Len(Taken) :
          /\ Taken[i].id \in 1..Len(snaps)
          /\ Taken[i].data = snaps[Taken[i].id].data
          /\ \A j \in 1..Len(Taken) : i < j => Taken[i].id < Taken[j].id
          /\ \A d \in 1..Len(discards) : discards[d] # Taken[i].id
    /\ \A d \in 1..Len(discards) : \A e \in 1..Len(discards) :
          d < e => discards[d] < discards[e]

\* the consumer has processed the results of two window cycles
C14_Witness ==
    /\ Len(received) = 2
    /\ received[1].id = 1
    /\ received[2].id = 2

\* the addresses of the Adds completed in window k
AddrsOfWindow(k) == { adds[i].src : i \in AddsOfWindow(k) }

\* C15: the accumulator is empty at engine start and right after every
\* swap, and no entry outlives one window: the live map holds exactly the
\* addresses added since the latest swap, and the snapshot of window k
\* exactly the addresses added between swap k-1 and swap k.
C15_ResetAtEveryBoundary ==
    /\ DOMAIN intervalData = AddrsOfWindow(Len(snaps) + 1)
    /\ \A k \in 1..Len(snaps) : DOMAIN snaps[k].data = AddrsOfWindow(k)

\* the swap of a window with traffic is followed by the swap of a window
\* without, whose snapshot is empty like the live map after it
C15_Witness ==
    /\ Len(snaps) = 2
    /\ DOMAIN snaps[1].data # {}
    /\ snaps[2].data = EmptyMap
    /\ runPc = "send"
    /\ intervalData = EmptyMap

\* C16: a snapshot, once produced, is changed by no later Add or swap (its
\* entries still hold the Bytes they held when it was produced), and it
\* shares no TrafficData object with the live map or with another snapshot.
C16_SnapshotImmutable ==
    \A k \in 1..Len(sentMaps) :
        /\ Deref(sentMaps[k], cells) = sentVals[k]
        /\ Addresses(sentMaps[k]) \cap Addresses(liveMap) = {}
        /\ \A j \in 1..Len(sentMaps) :
              j # k => Addresses(sentMaps[k]) \cap Addresses(sentMaps[j]) = {}

\* an Add for an address that the snapshot produced before it holds
C16_Witness ==
    /\ call.fn = "aggregatePacket"
    /\ Len(sentMaps) = 1
    /\ DOMAIN liveMap \cap DOMAIN sentMaps[1] # {}
    /\ liveMap # call.liveBefore

\* C17: a call of aggregatePacket with a frame that has neither an IPv4 nor
\* an IPv6 layer, or whose extracted length is zero, leaves the accumulator
\* as it was: no entry created, no counter changed, no object allocated.
C17_DiscardedFramesAreNoOps ==
    (/\ call.fn = "aggregatePacket"
     /\ \/ ~call.packet.ip4.present /\ ~call.packet.ip6.present
        \/ PacketSize(call.packet) = 0)
    => /\ liveMap = call.liveBefore
       /\ cells = call.cellsBefore
       /\ panicked = "none"

\* an IPv6 frame of length zero has been processed by an accumulator that
\* holds an entry
C17_Witness ==
    /\ call.fn = "aggregatePacket"
    /\ call.packet.ip6.present
    /\ PacketSize(call.packet) = 0
    /\ liveMap # EmptyMap
    /\ liveMap = call.liveBefore

\* the Bytes the accumulator held for address a before the latest call
BytesBefore(a) ==
    IF a \in DOMAIN call.liveBefore
    THEN call.cellsBefore[call.liveBefore[a]] ELSE 0

\* the Bytes the accumulator holds for address a
BytesNow(a) == IF a \in DOMAIN liveMap THEN cells[liveMap[a]] ELSE 0

\* the addresses the latest call created an entry for or added bytes to
Credited ==
    { a \in DOMAIN liveMap :
        a \notin DOMAIN call.liveBefore \/ BytesNow(a) # BytesBefore(a) }

\* C18: the frame is attributed to its IPv4 source when it carries an IPv4
\* layer (also when it carries an IPv6 layer as well), otherwise to its IPv6
\* source when it carries an IPv6 layer (and its length is not zero),
\* otherwise to no address.
C18_AddressExtraction ==
    call.fn = "aggregatePacket" =>
        LET p == call.packet IN
        /\ p.ip4.present => Credited = {p.ip4.src}
        /\ (~p.ip4.present /\ p.ip6.present) =>
              Credited = (IF PacketSize(p) = 0 THEN {} ELSE {p.ip6.src})
        /\ (~p.ip4.present /\ ~p.ip6.present) => Credited = {}

\* a frame with both layers has been attributed to its IPv4 source
C18_Witness ==
    /\ call.fn = "aggregatePacket"
    /\ call.packet.ip4.present
    /\ call.packet.ip6.present
    /\ call.packet.ip4.src # call.packet.ip6.src
    /\ Credited = {call.packet.ip4.src}

\* C19: an IPv6 frame (one without an IPv4 layer) whose metadata is present
\* is counted with the metadata's length, whatever its payload: a frame with
\* a payload of 0 and a metadata length of 1200 adds 1200 to the counter of
\* its source address.
C19_IPv6MetadataLength ==
    (/\ call.fn = "aggregatePacket"
     /\ ~call.packet.ip4.present
     /\ call.packet.ip6.present
     /\ call.packet.meta.present)
    => LET p == call.packet IN
       /\ BytesNow(p.ip6.src) = BytesBefore(p.ip6.src) + p.meta.length
       /\ p.meta.length # 0 => p.ip6.src \in DOMAIN liveMap
       /\ (p.ip6.payload = 0 /\ p.meta.length = 1200) =>
             BytesNow(p.ip6.src) - BytesBefore(p.ip6.src) = 1200

\* the frame with a payload of 0 and a metadata length of 1200 has been
\* added to an entry that already held bytes
C19_Witness ==
    /\ call.fn = "aggregatePacket"
    /\ call.packet = Pkt6("fe80::1", 0, 40, 1200)
    /\ BytesBefore("fe80::1") = 1200
    /\ BytesNow("fe80::1") = 2400

\* a float64 that is the whole number n
IsWhole(x, n) ==
    /\ ~x.nan /\ ~x.inf /\ ~x.neg
    /\ x.exp >= 0
    /\ Shl(x.mant, x.exp) = Natural(n)

\* a float64 x >= 0 that differs from num / den, the quotient of two natural
\* numbers, by no more than one part in 2^50 of it
Within(x, num, den) ==
    LET l == IF x.exp >= 0 THEN Shl(NatMul(x.mant, den), x.exp)
             ELSE NatMul(x.mant, den)
        r == IF x.exp >= 0 THEN num ELSE Shl(num, 0 - x.exp)
        diff == IF NatCmp(l, r) >= 0 THEN NatSub(l, r) ELSE NatSub(r, l)
    IN  /\ ~x.nan /\ ~x.inf /\ ~x.neg
        /\ NatCmp(Shl(diff, 50), r) <= 0

\* C20: CalculateSpeedMbps(bytes, interval) is 0 for an interval <= 0 and
\* bytes * 8 / (seconds * 1,000,000) for a positive interval: the float64 it
\* returns is that quotient up to the rounding of float64 (one part in
\* 2^50; with the interval in nanoseconds the quotient is bytes * 8000 /
\* interval); 1,000,000 bytes over 1 s are exactly 8 and 0 bytes over 1 s
\* are 0.
C20_RateMath ==
    call.fn = "CalculateSpeedMbps" =>
        /\ Int64LE0(call.interval) => call.speed = Zero(FALSE)
        /\ ~Int64LE0(call.interval) =>
              Within(call.speed, NatMul(call.bytes.mag, Natural(8000)),
                     call.interval.mag)
        /\ (call.bytes = Int64(1000000) /\ call.interval = Int64(1000000000)) =>
              IsWhole(call.speed, 8)
        /\ (call.bytes = Int64(0) /\ call.interval = Int64(1000000000)) =>
              IsWhole(call.speed, 0)

\* 1,000,000 bytes over one second have been rated at 8 Mbps
C20_Witness ==
    /\ call.fn = "CalculateSpeedMbps"
    /\ call.bytes = Int64(1000000)
    /\ call.interval = Int64(1000000000)
    /\ IsWhole(call.speed, 8)

----
(* The ranking, the alert and the notification of a window; the           *)
(* configuration                                                          *)

\* processIntervalData has returned from the window of call
Processed == call.fn = "processIntervalData" /\ monPc = "idle"

\* the configuration LoadConfig returned to main
Loaded == cfg.ret.cfg

\* min(n, size) for an int n > 0
SmallerOf(n, size) ==
    IF \E m \in 1 .. size : Int64(m) = n
    THEN CHOOSE m \in 1 .. size : Int64(m) = n
    ELSE size

\* C21: whenever a window's top talkers are selected, the selection holds
\* min(TopN, number of addresses) distinct addresses of the window, no
\* address left out has more bytes than a selected one, the selection and
\* the fields the notifier posts are in descending order of bytes, and for
\* {A:500, B:1500, C:1000} (in thousands) with TopN = 2 both are [B, C].
C21_RankingCorrectness ==
    (Processed /\ call.notification.sent) =>
        LET data == call.intervalData
            rank == call.notification.ranking
            sel == { rank[i] : i \in 1 .. Len(rank) }
            fields == call.notification.post.fields
            size == Cardinality(DOMAIN data)
        IN  /\ Len(rank) = SmallerOf(Loaded.TopN, size)
            /\ Cardinality(sel) = Len(rank)
            /\ sel \subseteq DOMAIN data
            /\ \A a \in sel, b \in DOMAIN data \ sel : data[a] >= data[b]
            /\ \A i, j \in 1 .. Len(rank) :
                 i < j => data[rank[i]] >= data[rank[j]]
            /\ DOMAIN call.notification.topTalkers = sel
            /\ call.notification.post.posted
            /\ { fields[i] : i \in 1 .. Len(fields) } = sel
            /\ Len(fields) = Len(rank)
            /\ \A i, j \in 1 .. Len(fields) :
                 i < j => data[fields[i]] >= data[fields[j]]
            /\ (data = ExampleWindow /\ Loaded.TopN = Int64(2)) =>
                 (rank = << "B", "C" >> /\ fields = << "B", "C" >>)

\* the example window ranked with TopN = 2
C21_Witness ==
    /\ Processed
    /\ call.notification.sent
    /\ call.intervalData = ExampleWindow
    /\ Loaded.TopN = Int64(2)
    /\ call.notification.ranking = << "B", "C" >>

\* the order in which the addresses of the windows are taken to be first
\* seen
FirstSeen == << "A", "B", "C" >>

FirstSeenAt(ip) == CHOOSE i \in 1 .. Len(FirstSeen) : FirstSeen[i] = ip

\* the ranking of data that breaks ties by first-seen order, cut at n
StableRanking(data, n) ==
    LET s == CHOOSE t \in Orderings(DOMAIN data) :
                \A i, j \in 1 .. Len(t) :
                    i < j => \/ data[t[i]] > data[t[j]]
                             \/ /\ data[t[i]] = data[t[j]]
                                /\ FirstSeenAt(t[i]) < FirstSeenAt(t[j])
    IN  SubSeq(s, 1, SmallerOf(n, Len(s)))

\* C22: the top talkers selected for a window are the ranking that orders
\* equal byte counts by the order in which their addresses were first seen.
C22_TieBreakFirstSeen ==
    (Processed /\ call.notification.sent) =>
        call.notification.ranking =
            StableRanking(call.intervalData, Loaded.TopN)

\* bytes * 8 / (seconds * 1,000,000) in float64, the seconds a whole number
FormulaRate(bytes, seconds) ==
    Float64Quo(Float64Mul(Float64(bytes), Float64(Int64(8))),
               Float64Mul(Float64(seconds), Float64(Int64(1000000))))

\* the rate of each window under each configuration, computed once
FormulaRates ==
    [c \in Configs, window \in Windows |->
        FormulaRate(Int64(TotalBytes(window)), c.IntervalSeconds)]

\* the rate of the window of call
RateOfWindow == FormulaRates[Loaded, call.intervalData]

\* the rate of the window of call is strictly above the threshold
RateAbove == Greater(RateOfWindow, Loaded.ThresholdMbps)

\* the rate of the window of call is strictly below the threshold
RateBelow == Greater(Loaded.ThresholdMbps, RateOfWindow)

\* C23: for each window processed, the alert is raised (and the threshold
\* gauge, when metrics are on, is set) exactly when the window's rate, the
\* float64 value of total bytes * 8 / (interval seconds * 1,000,000), is
\* strictly greater than the threshold; a window whose rate is equal to or
\* below the threshold hands nothing to the notifier.  The rate compared is
\* that value, which is the quotient up to the rounding of float64, and it
\* is determined by the window and the configuration.
C23_ThresholdAlert ==
    Processed =>
        /\ call.overallSpeedMbps = RateOfWindow
        /\ Within(call.overallSpeedMbps,
                  NatMul(Natural(TotalBytes(call.intervalData)), Natural(8)),
                  NatMul(Loaded.IntervalSeconds.mag, Natural(1000000)))
        /\ call.alert <=> RateAbove
        /\ call.metrics.updated =>
              (call.metrics.thresholdExceeded <=> RateAbove)
        /\ call.notification.sent => RateAbove
        /\ ~RateAbove => call.notification = NoNotification

\* a window one byte above the threshold of 1 Mbps over 1 s raises the alert
C23_Witness ==
    /\ Processed
    /\ Loaded.IntervalSeconds = Int64(1)
    /\ call.overallBytes = Int64(125001)
    /\ call.alert
    /\ IsWhole(Loaded.ThresholdMbps, 1)

\* C24: Monitor.Run tells the closed Result Channel from a delivered
\* window: it returns as "closed" only when the channel is closed, every
\* value it has processed is a window the aggregator sent, the step that
\* observes the closure processes nothing, once the channel is closed its
\* next step out of the select is a return, and after returning it does
\* nothing more.  And it does return: once the Result Channel is closed,
\* Monitor.Run eventually returns, by the closed channel or by its own stop
\* signal (unless the process has crashed).
C24_RunEndsOnClosure ==
    /\ resultsClosed ~> (consPc \in {"closed", "stopped"} \/ ~Alive)
    /\ [](/\ consPc = "closed" => resultsClosed
          /\ \A i \in DOMAIN received :
                /\ received[i].id \in 1 .. Len(snaps)
                /\ received[i].data = snaps[received[i].id].data)
    /\ [][/\ consPc \in {"closed", "stopped"} =>
                (consPc' = consPc /\ received' = received)
          /\ (resultsClosed /\ consPc = "select" /\ consPc' # consPc) =>
                consPc' \in {"closed", "stopped"}
          /\ (consPc' = "closed" /\ consPc # "closed") =>
                (received' = received /\ consData' = NoMsg)]_vars

\* Monitor.Run has returned on the closure after processing a window
C24_Witness ==
    /\ consPc = "closed"
    /\ resultsClosed
    /\ Len(received) > 0

\* LoadConfig has just returned
Loading == call.fn = "LoadConfig"

\* the value of key k that the sources of the run resolve to
Resolved(k) ==
    Decode(k, Find(k, call.flags, call.env, call.file), call.arch)

\* the config file was read (or none was looked for and found) and every
\* resolved value decodes into its field
SourcesReadable ==
    /\ call.file.state # "unparsable"
    /\ ~(call.file.state = "missing" /\ call.explicit)
    /\ \A k \in Keys : Resolved(k).ok
    /\ DecodeConfigFile(Setting(FieldKey, call.flags, call.env, call.file),
                        call.explicit).ok

\* x > 0 for a float64: false for NaN
FloatPositive(x) == ~x.nan /\ ~x.neg /\ (x.inf \/ x.mant # << >>)

\* x <= 0 for a float64: false for NaN
FloatLE0(x) == ~x.nan /\ (x.neg \/ (~x.inf /\ x.mant = << >>))

\* C25: with readable sources LoadConfig returns an error and no
\* configuration when the resolved interval_seconds, top_n or threshold_mbps
\* is <= 0, and the configuration without error when all three are positive;
\* a configuration is returned exactly when no error is, and every
\* configuration returned, and used on a window, has the three positive.
C25_ConfigValidation ==
    /\ Loading =>
        /\ (/\ SourcesReadable
            /\ \/ Int64LE0(Resolved("interval_seconds").v)
               \/ Int64LE0(Resolved("top_n").v)
               \/ FloatLE0(Resolved("threshold_mbps").v)) =>
              (call.ret.err # "nil" /\ call.ret.cfg = NilConfig)
        /\ (/\ SourcesReadable
            /\ ~Int64LE0(Resolved("interval_seconds").v)
            /\ ~Int64LE0(Resolved("top_n").v)
            /\ FloatPositive(Resolved("threshold_mbps").v)) =>
              (/\ call.ret.err = "nil"
               /\ call.ret.cfg # NilConfig
               /\ \A k \in Keys : call.ret.cfg[Field[k]] = Resolved(k).v)
    /\ cfg.status = "loaded" =>
        /\ cfg.ret.err = "nil" <=> cfg.ret.cfg # NilConfig
        /\ cfg.ret.err = "nil" =>
              (/\ ~Int64LE0(Loaded.IntervalSeconds)
               /\ ~Int64LE0(Loaded.TopN)
               /\ FloatPositive(Loaded.ThresholdMbps))

\* the keys and built-in defaults the precedence rule names
PrecedenceKeys ==
    {"interface", "threshold_mbps", "webhook_url", "interval_seconds", "top_n"}
BuiltIn ==
    [interface        |-> "",
     threshold_mbps   |-> Float64(Int64(100)),
     webhook_url      |-> "",
     interval_seconds |-> Int64(60),
     top_n            |-> Int64(5)]

\* the value a flag was set to
Given(x) ==
    CASE x.kind = "string" -> x.s
      [] x.kind = "int"    -> x.i
      [] x.kind = "float"  -> x.f
      [] OTHER             -> x.b

\* a value of the environment or of the config file as the type of the
\* field of key k
AsField(k, x) == Decode(k, [src |-> "given", v |-> x], call.arch).v

\* the config file read gives key k a value
InFile(k) ==
    /\ call.file.state = "parsed"
    /\ k \in DOMAIN call.file.content
    /\ call.file.content[k].kind # "null"

\* C26 as stated: for each key the configuration returned holds the flag
\* if the flag was set, else the NM_ variable if it is set (to any value,
\* the empty string included), else the value of the config file if
\* present, else the built-in default.
C26_PrecedenceEnvIfSet ==
    (Loading /\ call.ret.err = "nil") =>
        \A k \in PrecedenceKeys :
            call.ret.cfg[Field[k]] =
                IF k \in DOMAIN call.flags THEN Given(call.flags[k])
                ELSE IF k \in DOMAIN call.env
                     THEN AsField(k, StringValue(call.env[k]))
                ELSE IF InFile(k) THEN AsField(k, call.file.content[k])
                ELSE BuiltIn[k]

\* C26, amended: for each key the configuration returned holds the flag if
\* the flag was set, else the NM_ variable if it is set to a non-empty
\* value, else the value of the config file if present, else the built-in
\* default (interface "", threshold 100, webhook "", interval 60, top_n 5).
C26_Precedence ==
    (Loading /\ call.ret.err = "nil") =>
        \A k \in PrecedenceKeys :
            call.ret.cfg[Field[k]] =
                IF k \in DOMAIN call.flags THEN Given(call.flags[k])
                ELSE IF k \in DOMAIN call.env /\ call.env[k] # ""
                     THEN AsField(k, StringValue(call.env[k]))
                ELSE IF InFile(k) THEN AsField(k, call.file.content[k])
                ELSE BuiltIn[k]

\* one run in which a flag beats the environment and the file, the
\* environment beats the file, the file beats the default and a default is
\* used
C26_Witness ==
    /\ Loading
    /\ call.ret.err = "nil"
    /\ "interface" \in DOMAIN call.flags
    /\ "interface" \in DOMAIN call.env
    /\ InFile("interface")
    /\ call.ret.cfg.InterfaceName = "flag_iface"
    /\ "top_n" \notin DOMAIN call.flags
    /\ InFile("top_n")
    /\ call.ret.cfg.TopN = Int64(10)
    /\ ~("interval_seconds" \in DOMAIN call.flags \cup DOMAIN call.env)
    /\ call.ret.cfg.IntervalSeconds = Int64(1)
    /\ call.ret.cfg.MetricsEnabled

\* C27: a config file given explicitly that does not exist makes LoadConfig
\* fail with 'config file specified but not found'; with no path given and
\* no file found LoadConfig does not fail on the file; a file that cannot be
\* parsed makes it fail with 'failed to read config file'.
C27_ConfigFileErrors ==
    Loading =>
        /\ (call.explicit /\ call.file.state = "missing") =>
              call.ret = Failure("config file specified but not found")
        /\ (~call.explicit /\ call.file.state = "missing") =>
              call.ret.err \notin {"config file specified but not found",
                                   "failed to read config file"}
        /\ call.file.state = "unparsable" =>
              call.ret = Failure("failed to read config file")

\* C28: with an empty webhook URL nothing is handed to the notifier for any
\* window, alert or not, and no delivery is ever started; the window is
\* otherwise processed as usual and the monitor can process the next one
\* (while the run has windows left to deliver).  Whatever is handed to the
\* notifier carries a non-empty URL and is posted.
C28_EmptyWebhookDisablesNotifications ==
    /\ (cfg.status = "loaded" /\ cfg.ret.err = "nil"
        /\ Loaded.WebhookURL = "") => deliveries = << >>
    /\ Processed =>
        /\ Loaded.WebhookURL = "" =>
              (/\ call.notification = NoNotification
               /\ call.overallBytes = Int64(TotalBytes(call.intervalData))
               /\ call.metrics.updated = Loaded.MetricsEnabled
               /\ processed.n < MaxWindows => ENABLED ProcessIntervalData)
        /\ call.notification.sent =>
              (/\ Loaded.WebhookURL # ""
               /\ call.notification.post.posted
               /\ call.notification.post.webhookURL = Loaded.WebhookURL)

\* a window above the threshold processed without a webhook URL
C28_Witness ==
    /\ Processed
    /\ Loaded.WebhookURL = ""
    /\ call.alert
    /\ call.notification = NoNotification

\* the addresses of data that a top-n selection can hold
LargestOf(sel, data, n) ==
    /\ sel \subseteq DOMAIN data
    /\ ~Int64Less(n, Int64(Cardinality(sel)))
    /\ \A a \in sel, b \in DOMAIN data \ sel : data[a] >= data[b]

\* C29: the per-address values processIntervalData passes to the metrics
\* exporter and to the notifier for a window are those of at most TopN
\* addresses, the ones with the largest byte counts of the window.
C29_TopNPassedOn ==
    Processed =>
        /\ call.metrics.updated =>
              LargestOf(DOMAIN call.metrics.topTalkers, call.intervalData,
                        Loaded.TopN)
        /\ call.notification.sent =>
              LargestOf(DOMAIN call.notification.topTalkers,
                        call.intervalData, Loaded.TopN)

\* C30: as the example configuration states for threshold_mbps, a
\* notification may be sent for a window whose speed is below the
\* threshold: where processIntervalData checks the threshold of such a
\* window (a webhook being configured), handing a notification to the
\* notifier is one of the steps it can take.
C30_MayNotifyWhenBelow ==
    (call.fn = "processIntervalData" /\ monPc = "check" /\ RateBelow
        /\ Loaded.WebhookURL # "") =>
        ENABLED (CheckThreshold /\ call'.notification.sent)

\* a window that holds bytes and is below the threshold processed with a
\* webhook configured: nothing is sent
C30_Witness ==
    /\ Processed
    /\ call.overallBytes # Int64(0)
    /\ Loaded.WebhookURL # ""
    /\ call.notification = NoNotification
    /\ RateBelow

----
(* The ticker's periods, the window duration, the lock during a send,     *)
(* Close, and the gauges                                                   *)

\* C31: while the aggregator has not been stopped, every ticker period
\* that has elapsed is either waiting in ticker.C or has begun its own
\* window cycle: the number of periods is the number of cycles begun plus
\* the tick waiting, so no period passes without a swap.
C31_EveryFireOneCycle ==
    ~stopClosed => fires = swapsBegun + tickC

Constructed == call.fn = "NewAggregator"

\* the rate of a window of each size over 1 second, computed once
OneSecondRate ==
    [totalBytes \in SpeedBytes |-> FormulaRate(totalBytes, Int64(1))]

\* C32: given a non-positive window duration the engine raises no error
\* and computes the rate of each window cycle over 1 second:
\* totalBytes * 8 / 1,000,000.
C32_DegenerateDurationIsOneSecond ==
    (Constructed /\ Int64LE0(call.IntervalSeconds)) =>
        /\ ~call.panic
        /\ call.overallSpeedMbps = OneSecondRate[call.totalBytes]

\* 5 seconds as a Duration
FiveSeconds == [neg |-> FALSE, mag |-> NatMul(Natural(5), Natural(1000000000))]

\* CalculateSpeedMbps for the windows and the intervals NewAggregator
\* leaves, computed once
CycleSpeedMbps ==
    [totalBytes \in SpeedBytes,
     interval \in { NewAggregator(n).interval : n \in IntervalSecondsCases } |->
        CalculateSpeedMbps(totalBytes, interval)]

\* 8 / 5 in float64
EightFifths == Float64Quo(Float64(Int64(8)), Float64(Int64(5)))

\* C37: NewAggregator replaces a non-positive IntervalSeconds by 5 seconds
\* and makes of a positive one (below 2^33, so that the product stays in
\* int64) that many seconds; whatever IntervalSeconds it is given, an
\* aggregator that exists has a positive window duration, the rate of its
\* window cycles is CalculateSpeedMbps(totalBytes, interval), and the branch
\* that floors the seconds to 1 is not taken.
C37_WindowDurationPositive ==
    Constructed =>
        /\ Int64LE0(call.IntervalSeconds) =>
              (~call.panic /\ call.interval = FiveSeconds)
        /\ (~Int64LE0(call.IntervalSeconds)
            /\ BitLen(call.IntervalSeconds.mag) <= 33) =>
              (/\ ~call.panic
               /\ call.interval =
                     [neg |-> FALSE,
                      mag |-> NatMul(call.IntervalSeconds.mag,
                                     Natural(1000000000))])
        /\ ~call.panic =>
              (/\ ~call.interval.neg
               /\ call.interval.mag # << >>
               /\ ~call.floored
               /\ call.overallSpeedMbps =
                     CycleSpeedMbps[call.totalBytes, call.interval])

\* an aggregator built with IntervalSeconds = 0 computes the rate of a
\* window that holds bytes over 5 seconds
C37_Witness ==
    /\ Constructed
    /\ call.IntervalSeconds = Int64(0)
    /\ call.interval = FiveSeconds
    /\ call.totalBytes = Int64(1000000)
    /\ call.overallSpeedMbps = EightFifths

\* processInterval is at its send, the result not yet taken or dropped
Sending == runPc \in {"send", "blocked"}

\* C33: while the window cycle's send is pending the lock is not held by
\* run, so an Add waiting for the lock can take it; an Add completing then
\* is accumulated into the new live map as part of the next window, and the
\* next snapshot taken is that live map.
C33_SlowConsumerNeverBlocksIngestion ==
    /\ [](Sending => (mu # "run" /\ (ingestPc = "lock" => mu = "free")))
    /\ [][/\ (Sending /\ adds' # adds) =>
               LET a == adds'[Len(adds')]
               IN  /\ a.w = Len(snaps) + 1
                   /\ Value(intervalData', a.src) =
                         Value(intervalData, a.src) + a.size
          /\ Len(snaps') > Len(snaps) =>
               snaps'[Len(snaps')].data = intervalData]_vars

\* the first result is still waiting for the consumer and an Add made
\* since its swap is in the new live map
C33_Witness ==
    /\ runPc = "blocked"
    /\ Len(snaps) = 1
    /\ \E i \in 1 .. Len(adds) :
          /\ adds[i].w = 2
          /\ Value(intervalData, adds[i].src) = adds[i].size

\* C35: Monitor.Close never panics: neither its own close(m.stopChan) nor
\* the close(a.stopChan) of the Aggregator.Stop it calls hits a channel
\* that is already closed, whether the packet source was exhausted before
\* or Close is called a second time.
C35_CloseNeverPanics ==
    /\ panicked # "Close"
    /\ ~(panicked = "Stop" /\ callerPc = "closeStop")

\* C36: the total speed written in a posted notification is the overall
\* speed of the window that was compared with the threshold, whatever the
\* snapshot and TopN.
C36_NotifiedTotalIsOverallSpeed ==
    (Processed /\ call.notification.sent /\ call.notification.post.posted) =>
        call.notification.post.totalSpeed = call.overallSpeedMbps

\* C38: every entry of the live accumulator and of every emitted snapshot
\* holds more than zero bytes; an Add keeps every entry and lowers none, an
\* entry it creates holds the non-zero size of its packet, and a swap that
\* finds the accumulator empty emits an empty snapshot.
C38_EntriesArePositive ==
    /\ \A ip \in DOMAIN liveMap : cells[liveMap[ip]] > 0
    /\ \A k \in 1 .. Len(sentMaps) : \A ip \in DOMAIN sentMaps[k] :
          sentVals[k][ip] > 0 /\ cells[sentMaps[k][ip]] > 0
    /\ call.fn = "aggregatePacket" =>
          /\ \A ip \in DOMAIN call.liveBefore :
                /\ ip \in DOMAIN liveMap
                /\ cells[liveMap[ip]] >= call.cellsBefore[call.liveBefore[ip]]
          /\ \A ip \in DOMAIN liveMap \ DOMAIN call.liveBefore :
                /\ PacketSize(call.packet) # 0
                /\ cells[liveMap[ip]] = PacketSize(call.packet)
    /\ (call.fn = "processInterval" /\ call.liveBefore = EmptyMap) =>
          sentMaps[Len(sentMaps)] = EmptyMap

\* after a window with bytes of fe80::1 was emitted, an IPv6 frame of
\* fe80::1 whose captured length is 0 arrives and creates no entry
C38_Witness ==
    /\ call.fn = "aggregatePacket"
    /\ call.packet = Pkt6("fe80::1", 8, 40, 0)
    /\ Len(sentVals) = 1
    /\ "fe80::1" \in DOMAIN sentVals[1]
    /\ liveMap = EmptyMap

\* C39: with metrics enabled, once a window has been processed the traffic
\* counter holds the sum of the total bytes of the windows processed so far
\* and the threshold gauge is 1 exactly when the latest window's rate, the
\* float64 value of total bytes * 8 / (interval seconds * 1,000,000), is
\* strictly above the threshold, which is exactly when the alert was raised
\* for it; the counter never decreases, it changes only by the total of the
\* window being processed, and only the processing of a window changes a
\* collector.
C39_CountersFollowWindows ==
    /\ []((Processed /\ Loaded.MetricsEnabled) =>
            /\ gauges.traffic = Natural(processed.bytes)
            /\ gauges.thresholdExceeded \in {0, 1}
            /\ gauges.thresholdExceeded = 1 <=> RateAbove
            /\ gauges.thresholdExceeded = 1 <=> call.alert)
    /\ [][/\ NatCmp(gauges'.traffic, gauges.traffic) >= 0
          /\ gauges'.traffic # gauges.traffic =>
                /\ call.fn = "processIntervalData"
                /\ call'.metrics.traffic = call.overallBytes
                /\ call.metrics.traffic = Int64(0)
                /\ gauges'.traffic =
                      NatAdd(gauges.traffic,
                             Natural(TotalBytes(call.intervalData)))
          /\ processed'.n # processed.n =>
                /\ processed'.n = processed.n + 1
                /\ Loaded.MetricsEnabled =>
                      gauges'.traffic = Natural(processed'.bytes)
          /\ gauges' # gauges =>
                (call.fn = "processIntervalData" /\ monPc # "idle")]_vars

\* a window above the threshold followed by a window below it: the counter
\* holds the bytes of both and the gauge is back at 0
C39_Witness ==
    /\ Processed
    /\ Loaded.MetricsEnabled
    /\ processed.n = 2
    /\ call.overallBytes = Int64(125000)
    /\ ~call.alert
    /\ gauges.traffic = Natural(3000000 + 125000)
    /\ gauges.thresholdExceeded = 0
    /\ Len(deliveries) = 1

\* the deliveries still in progress
Running == { i \in 1 .. Len(deliveries) : deliveries[i].state = "running" }

\* C34: a delivery is started by the processing of an alerted window and
\* runs beside the monitor: while one is in progress the monitor can go on
\* with the window it is processing and take the next one; a step of a
\* delivery (posted or failed) changes nothing of the monitor, its
\* collectors or the aggregator; a delivery that has ended stays as it
\* ended, and no window ever has a second delivery.
C34_DeliveryIsDecoupled ==
    /\ []((Running # {} /\ processed.n < MaxWindows) =>
             ENABLED ProcessIntervalData)
    /\ [](\A i, j \in 1 .. Len(deliveries) :
             /\ deliveries[i].window \in 1 .. processed.n
             /\ i < j => deliveries[i].window < deliveries[j].window)
    /\ [][/\ Len(deliveries') >= Len(deliveries)
          /\ \A i \in 1 .. Len(deliveries) :
                /\ deliveries'[i].window = deliveries[i].window
                /\ deliveries[i].state # "running" =>
                      deliveries'[i] = deliveries[i]
          /\ Len(deliveries') > Len(deliveries) =>
                /\ processed'.n = processed.n + 1
                /\ call'.alert
                /\ Len(deliveries') = Len(deliveries) + 1
                /\ deliveries'[Len(deliveries')] =
                      [window |-> processed'.n, state |-> "running"]
          /\ (\E i \in 1 .. Len(deliveries) :
                 deliveries'[i].state # deliveries[i].state) =>
                UNCHANGED << progVars, calls, call, cells, liveMap, sentMaps,
                             sentVals, cfg, gauges, processed, monPc >>]_vars

\* the delivery for the first window has failed, the one for the second
\* window was started meanwhile and is still in progress
C34_Witness ==
    /\ Len(deliveries) = 2
    /\ deliveries[1] = [window |-> 1, state |-> "failed"]
    /\ deliveries[2] = [window |-> 2, state |-> "running"]
    /\ processed.n = 2

====
